---------------------------- MODULE Spec2Model ----------------------------
(***************************************************************************)
(* A model of the xsd-types crate: the datatype catalog (Datatype and its  *)
(* derivation chains, from_iri / iri / parse), the arbitrary-precision     *)
(* NonNegativeInteger and NonPositiveInteger values, their narrowing into  *)
(* machine integers, their classification into the narrowest datatype and  *)
(* the arithmetic of NonNegativeInteger.                                   *)
(*                                                                         *)
(* TLC's integers are 32 bits wide, and the crate's values cross 2^64, so  *)
(* a BigInt is modelled as num-bigint stores it: a sign and a magnitude,   *)
(* the magnitude a little-endian sequence of base-256 digits without a     *)
(* most significant zero.  A machine integer is modelled as its bytes      *)
(* (little-endian, two's complement for the signed types).                 *)
(***************************************************************************)
EXTENDS Integers, Sequences, FiniteSets, TLC

VARIABLES
    op,     \* the operation the caller ran last
    arg,    \* its inputs
    res,    \* what it returned (or the panic that ended it)
    acc     \* the NonNegativeInteger values the caller holds, the latest last

vars == <<op, arg, res, acc>>

(***************************************************************************)
(* Option<T>: None is the empty sequence; Some(x) is x itself (every x the *)
(* model wraps in an Option is a non-empty sequence or a record).          *)
(***************************************************************************)
None == <<>>

Option(S) == S \cup {None}

(***************************************************************************)
(* Magnitudes: BigUint.                                                    *)
(***************************************************************************)
Base == 256

RECURSIVE Strip(_)
Strip(m) ==
    IF m = <<>> THEN <<>>
    ELSE IF m[Len(m)] = 0 THEN Strip(SubSeq(m, 1, Len(m) - 1))
    ELSE m

RECURSIVE MagFromNat(_)
MagFromNat(n) ==
    IF n = 0 THEN <<>> ELSE <<n % Base>> \o MagFromNat(n \div Base)

RECURSIVE MagCmpFrom(_, _, _)
MagCmpFrom(a, b, i) ==
    IF i = 0 THEN 0
    ELSE IF a[i] < b[i] THEN -1
    ELSE IF a[i] > b[i] THEN 1
    ELSE MagCmpFrom(a, b, i - 1)

\* -1, 0 or 1 as a < b, a = b or a > b
MagCmp(a, b) ==
    IF Len(a) < Len(b) THEN -1
    ELSE IF Len(a) > Len(b) THEN 1
    ELSE MagCmpFrom(a, b, Len(a))

RECURSIVE MagAddC(_, _, _)
MagAddC(a, b, c) ==
    IF a = <<>> /\ b = <<>> THEN (IF c = 0 THEN <<>> ELSE <<c>>)
    ELSE LET x == IF a = <<>> THEN 0 ELSE a[1]
             y == IF b = <<>> THEN 0 ELSE b[1]
             s == x + y + c
             ta == IF a = <<>> THEN <<>> ELSE Tail(a)
             tb == IF b = <<>> THEN <<>> ELSE Tail(b)
         IN  <<s % Base>> \o MagAddC(ta, tb, s \div Base)

MagAdd(a, b) == MagAddC(a, b, 0)

RECURSIVE MagSubB(_, _, _)
MagSubB(a, b, borrow) ==
    IF a = <<>> THEN <<>>
    ELSE LET y == IF b = <<>> THEN 0 ELSE b[1]
             d == a[1] - y - borrow
             tb == IF b = <<>> THEN <<>> ELSE Tail(b)
         IN  IF d < 0 THEN <<d + Base>> \o MagSubB(Tail(a), tb, 1)
             ELSE <<d>> \o MagSubB(Tail(a), tb, 0)

\* a - b, for a >= b
MagSub(a, b) == Strip(MagSubB(a, b, 0))

RECURSIVE MagMulSmallC(_, _, _)
MagMulSmallC(a, d, c) ==
    IF a = <<>> THEN MagFromNat(c)
    ELSE LET p == a[1] * d + c
         IN  <<p % Base>> \o MagMulSmallC(Tail(a), d, p \div Base)

\* a * d, for a digit d
MagMulSmall(a, d) == IF d = 0 THEN <<>> ELSE MagMulSmallC(a, d, 0)

MagShift(m) == IF m = <<>> THEN <<>> ELSE <<0>> \o m

RECURSIVE MagMul(_, _)
MagMul(a, b) ==
    IF a = <<>> \/ b = <<>> THEN <<>>
    ELSE MagAdd(MagMulSmall(a, b[1]), MagShift(MagMul(a, Tail(b))))

\* the largest digit q in lo..hi with q * b <= r (it exists: lo * b <= r)
RECURSIVE MagQuotDigit(_, _, _, _)
MagQuotDigit(r, b, lo, hi) ==
    IF lo = hi THEN lo
    ELSE LET mid == (lo + hi + 1) \div 2
         IN  IF MagCmp(MagMulSmall(b, mid), r) <= 0
             THEN MagQuotDigit(r, b, mid, hi)
             ELSE MagQuotDigit(r, b, lo, mid - 1)

\* long division of a[1..i] (most significant digit first) by b # 0:
\* <<quotient, remainder>> with rem the remainder of the digits above i
RECURSIVE MagDivRemFrom(_, _, _, _, _)
MagDivRemFrom(a, b, i, q, rem) ==
    IF i = 0 THEN <<Strip(q), rem>>
    ELSE LET r  == Strip(<<a[i]>> \o rem)
             qd == MagQuotDigit(r, b, 0, Base - 1)
         IN  MagDivRemFrom(a, b, i - 1, <<qd>> \o q,
                           MagSub(r, MagMulSmall(b, qd)))

MagDivRem(a, b) == MagDivRemFrom(a, b, Len(a), <<>>, <<>>)

MagDiv(a, b) == MagDivRem(a, b)[1]

\* 2^(8 * n)
MagPow256(n) == [i \in 1 .. (n + 1) |-> IF i = n + 1 THEN 1 ELSE 0]

\* 2^(8 * n) - 1
MagMax256(n) == [i \in 1 .. n |-> Base - 1]

(***************************************************************************)
(* BigInt: a sign and a magnitude; zero has NoSign.                        *)
(***************************************************************************)
BigFromParts(sign, mag) ==
    IF mag = <<>> THEN [sign |-> "NoSign", mag |-> <<>>]
    ELSE [sign |-> sign, mag |-> mag]

BigZero == [sign |-> "NoSign", mag |-> <<>>]

BigFromInt(n) ==
    IF n = 0 THEN BigZero
    ELSE IF n < 0 THEN [sign |-> "Minus", mag |-> MagFromNat(-n)]
    ELSE [sign |-> "Plus", mag |-> MagFromNat(n)]

is_negative(n) == n.sign = "Minus"

is_positive(n) == n.sign = "Plus"

is_zero(n) == n.sign = "NoSign"

NegSign(s) ==
    IF s = "Minus" THEN "Plus" ELSE IF s = "Plus" THEN "Minus" ELSE "NoSign"

BigNeg(n) == [sign |-> NegSign(n.sign), mag |-> n.mag]

BigAdd(a, b) ==
    IF is_zero(a) THEN b
    ELSE IF is_zero(b) THEN a
    ELSE IF a.sign = b.sign THEN [sign |-> a.sign, mag |-> MagAdd(a.mag, b.mag)]
    ELSE LET c == MagCmp(a.mag, b.mag)
         IN  IF c = 0 THEN BigZero
             ELSE IF c > 0 THEN [sign |-> a.sign, mag |-> MagSub(a.mag, b.mag)]
             ELSE [sign |-> b.sign, mag |-> MagSub(b.mag, a.mag)]

BigSub(a, b) == BigAdd(a, BigNeg(b))

BigMul(a, b) ==
    IF is_zero(a) \/ is_zero(b) THEN BigZero
    ELSE [sign |-> IF a.sign = b.sign THEN "Plus" ELSE "Minus",
          mag  |-> MagMul(a.mag, b.mag)]

\* a / b rounded toward minus infinity, for b # 0
BigDiv_Floor(a, b) ==
    LET qr == MagDivRem(a.mag, b.mag)
    IN  IF a.sign = b.sign \/ qr[2] = <<>>
        THEN BigFromParts(IF a.sign = b.sign THEN "Plus" ELSE "Minus", qr[1])
        ELSE [sign |-> "Minus", mag |-> MagAdd(qr[1], <<1>>)]

\* a / b truncated toward zero, for b # 0
BigDiv(a, b) ==
    BigFromParts(IF a.sign = b.sign THEN "Plus" ELSE "Minus",
                 MagDiv(a.mag, b.mag))

\* -1, 0 or 1 as a < b, a = b or a > b
BigCmp(a, b) ==
    IF a.sign # b.sign
    THEN (IF a.sign = "Minus" \/ (a.sign = "NoSign" /\ b.sign = "Plus")
          THEN -1 ELSE 1)
    ELSE IF a.sign = "Plus" THEN MagCmp(a.mag, b.mag)
    ELSE IF a.sign = "Minus" THEN MagCmp(b.mag, a.mag)
    ELSE 0


(***************************************************************************)
(* Results.  A call returns Ok(v) or Err(e) to its caller, or it panics    *)
(* (todo!(), a failed assert!, a division by zero): the caller is aborted  *)
(* and gets no value.                                                      *)
(***************************************************************************)
Ok(v) == [tag |-> "Ok", value |-> v]

Err(e) == [tag |-> "Err", error |-> e]

Panic(msg) == [tag |-> "Panic", msg |-> msg]

\* a stub that answers with an empty string instead of stopping
todo_SilentlyOk == Ok([variant |-> "String", v |-> <<>>])

todo == Panic("not yet implemented")

Some(x) == x

(***************************************************************************)
(* The datatype IRIs: XSD.BYTE is the constant XSD_BYTE.                   *)
(***************************************************************************)
XSD ==
    [ DURATION |-> "http://www.w3.org/2001/XMLSchema#duration",
      DATE_TIME |-> "http://www.w3.org/2001/XMLSchema#dateTime",
      TIME |-> "http://www.w3.org/2001/XMLSchema#time",
      DATE |-> "http://www.w3.org/2001/XMLSchema#date",
      G_YEAR_MONTH |-> "http://www.w3.org/2001/XMLSchema#gYearMonth",
      G_YEAR |-> "http://www.w3.org/2001/XMLSchema#gYear",
      G_MONTH_DAY |-> "http://www.w3.org/2001/XMLSchema#gMonthDay",
      G_DAY |-> "http://www.w3.org/2001/XMLSchema#gDay",
      G_MONTH |-> "http://www.w3.org/2001/XMLSchema#gMonth",
      STRING |-> "http://www.w3.org/2001/XMLSchema#string",
      BOOLEAN |-> "http://www.w3.org/2001/XMLSchema#boolean",
      BASE64_BINARY |-> "http://www.w3.org/2001/XMLSchema#base64Binary",
      HEX_BINARY |-> "http://www.w3.org/2001/XMLSchema#hexBinary",
      FLOAT |-> "http://www.w3.org/2001/XMLSchema#float",
      DECIMAL |-> "http://www.w3.org/2001/XMLSchema#decimal",
      DOUBLE |-> "http://www.w3.org/2001/XMLSchema#double",
      ANY_URI |-> "http://www.w3.org/2001/XMLSchema#anyURI",
      Q_NAME |-> "http://www.w3.org/2001/XMLSchema#QName",
      NOTATION |-> "http://www.w3.org/2001/XMLSchema#NOTATION",
      NORMALIZED_STRING |-> "http://www.w3.org/2001/XMLSchema#normalizedString",
      TOKEN |-> "http://www.w3.org/2001/XMLSchema#token",
      LANGUAGE |-> "http://www.w3.org/2001/XMLSchema#language",
      NAME |-> "http://www.w3.org/2001/XMLSchema#Name",
      NMTOKEN |-> "http://www.w3.org/2001/XMLSchema#NMTOKEN",
      NC_NAME |-> "http://www.w3.org/2001/XMLSchema#NCName",
      NMTOKENS |-> "http://www.w3.org/2001/XMLSchema#NMTOKENS",
      ID |-> "http://www.w3.org/2001/XMLSchema#ID",
      IDREF |-> "http://www.w3.org/2001/XMLSchema#IDREF",
      ENTITY |-> "http://www.w3.org/2001/XMLSchema#ENTITY",
      IDREFS |-> "http://www.w3.org/2001/XMLSchema#IDREFS",
      ENTITIES |-> "http://www.w3.org/2001/XMLSchema#ENTITIES",
      INTEGER |-> "http://www.w3.org/2001/XMLSchema#integer",
      NON_POSITIVE_INTEGER |-> "http://www.w3.org/2001/XMLSchema#nonPositiveInteger",
      NEGATIVE_INTEGER |-> "http://www.w3.org/2001/XMLSchema#negativeInteger",
      LONG |-> "http://www.w3.org/2001/XMLSchema#long",
      INT |-> "http://www.w3.org/2001/XMLSchema#int",
      SHORT |-> "http://www.w3.org/2001/XMLSchema#short",
      BYTE |-> "http://www.w3.org/2001/XMLSchema#byte",
      NON_NEGATIVE_INTEGER |-> "http://www.w3.org/2001/XMLSchema#nonNegativeInteger",
      UNSIGNED_LONG |-> "http://www.w3.org/2001/XMLSchema#unsignedLong",
      UNSIGNED_INT |-> "http://www.w3.org/2001/XMLSchema#unsignedInt",
      UNSIGNED_SHORT |-> "http://www.w3.org/2001/XMLSchema#unsignedShort",
      UNSIGNED_BYTE |-> "http://www.w3.org/2001/XMLSchema#unsignedByte",
      POSITIVE_INTEGER |-> "http://www.w3.org/2001/XMLSchema#positiveInteger" ]

\* the IRIs of the fixed table that from_iri maps to a datatype
MappedIris ==
    { XSD.DURATION, XSD.DATE_TIME, XSD.TIME, XSD.DATE, XSD.G_YEAR_MONTH,
      XSD.G_YEAR, XSD.G_MONTH_DAY, XSD.G_DAY, XSD.G_MONTH, XSD.STRING,
      XSD.BOOLEAN, XSD.BASE64_BINARY, XSD.HEX_BINARY, XSD.FLOAT, XSD.DECIMAL,
      XSD.DOUBLE, XSD.ANY_URI, XSD.Q_NAME, XSD.NOTATION,
      XSD.NORMALIZED_STRING, XSD.TOKEN, XSD.LANGUAGE, XSD.NAME, XSD.NMTOKEN,
      XSD.NC_NAME, XSD.ID, XSD.IDREF, XSD.ENTITY, XSD.INTEGER,
      XSD.NON_POSITIVE_INTEGER, XSD.NEGATIVE_INTEGER, XSD.LONG, XSD.INT,
      XSD.SHORT, XSD.BYTE, XSD.NON_NEGATIVE_INTEGER, XSD.UNSIGNED_LONG,
      XSD.UNSIGNED_INT, XSD.UNSIGNED_SHORT, XSD.UNSIGNED_BYTE,
      XSD.POSITIVE_INTEGER }

\* the list-derived datatypes, which from_iri does not support
ListIris == { XSD.NMTOKENS, XSD.IDREFS, XSD.ENTITIES }

\* IRIs outside the table: other XSD names, other spellings, other namespaces
UnknownIris ==
    { "http://www.w3.org/2001/XMLSchema#anyType",
      "http://www.w3.org/2001/XMLSchema#anySimpleType",
      "http://www.w3.org/2001/XMLSchema#Byte",
      "http://www.w3.org/2001/XMLSchema#name",
      "http://www.w3.org/2001/XMLSchema#id",
      "http://www.w3.org/2001/XMLSchema#dateTimeStamp",
      "http://www.w3.org/2001/XMLSchema#",
      "http://www.w3.org/2001/XMLSchema",
      "http://www.w3.org/2001/XMLSchema-datatypes#byte",
      "http://www.w3.org/1999/02/22-rdf-syntax-ns#langString",
      "http://example.org/byte" }

Iris == MappedIris \cup ListIris \cup UnknownIris

(***************************************************************************)
(* The datatype enums.  A value is the sequence of its variant names from  *)
(* the outside in: Decimal(Some(Integer(None))) is <<"Decimal","Integer">>.*)
(***************************************************************************)
NCNameDatatype == { <<"Id">>, <<"IdRef">>, <<"Entity">> }

NameDatatype == { <<"NCName">> \o t : t \in Option(NCNameDatatype) }

TokenDatatype ==
    { <<"Language">>, <<"NMToken">> }
        \cup { <<"Name">> \o t : t \in Option(NameDatatype) }

NormalizedStringDatatype == { <<"Token">> \o t : t \in Option(TokenDatatype) }

StringDatatype ==
    { <<"NormalizedString">> \o t : t \in Option(NormalizedStringDatatype) }

NonPositiveIntegerDatatype == { <<"NegativeInteger">> }

ShortDatatype == { <<"Byte">> }

IntDatatype == { <<"Short">> \o t : t \in Option(ShortDatatype) }

LongDatatype == { <<"Int">> \o t : t \in Option(IntDatatype) }

UnsignedShortDatatype == { <<"UnsignedByte">> }

UnsignedIntDatatype ==
    { <<"UnsignedShort">> \o t : t \in Option(UnsignedShortDatatype) }

UnsignedLongDatatype ==
    { <<"UnsignedInt">> \o t : t \in Option(UnsignedIntDatatype) }

NonNegativeIntegerDatatype ==
    { <<"UnsignedLong">> \o t : t \in Option(UnsignedLongDatatype) }
        \cup { <<"PositiveInteger">> }

IntegerDatatype ==
    { <<"NonPositiveInteger">> \o t : t \in Option(NonPositiveIntegerDatatype) }
        \cup { <<"Long">> \o t : t \in Option(LongDatatype) }
        \cup { <<"NonNegativeInteger">> \o t :
                   t \in Option(NonNegativeIntegerDatatype) }

DecimalDatatype == { <<"Integer">> \o t : t \in Option(IntegerDatatype) }

Datatype ==
    { <<"String">> \o t : t \in Option(StringDatatype) }
        \cup { <<"Decimal">> \o t : t \in Option(DecimalDatatype) }
        \cup { <<"Boolean">>, <<"Float">>, <<"Double">>, <<"Duration">>,
               <<"DateTime">>, <<"Time">>, <<"Date">>, <<"GYearMonth">>,
               <<"GYear">>, <<"GMonthDay">>, <<"GDay">>, <<"GMonth">>,
               <<"HexBinary">>, <<"Base64Binary">>, <<"AnyUri">>,
               <<"QName">>, <<"Notation">> }

(***************************************************************************)
(* iri(): each enum's match, innermost enum first.                         *)
(***************************************************************************)
NCNameDatatype_iri_SwappedIdRef(self) ==
    CASE self[1] = "Id" -> XSD.ID
      [] self[1] = "IdRef" -> XSD.ID
      [] self[1] = "Entity" -> XSD.ENTITY

NCNameDatatype_iri(self) ==
    CASE self[1] = "Id" -> XSD.ID
      [] self[1] = "IdRef" -> XSD.IDREF
      [] self[1] = "Entity" -> XSD.ENTITY

NameDatatype_iri(self) ==
    CASE self[1] = "NCName" /\ Tail(self) = None -> XSD.NC_NAME
      [] self[1] = "NCName" /\ Tail(self) # None -> NCNameDatatype_iri(Tail(self))

TokenDatatype_iri(self) ==
    CASE self[1] = "Language" -> XSD.LANGUAGE
      [] self[1] = "NMToken" -> XSD.NMTOKEN
      [] self[1] = "Name" /\ Tail(self) = None -> XSD.NAME
      [] self[1] = "Name" /\ Tail(self) # None -> NameDatatype_iri(Tail(self))

NormalizedStringDatatype_iri(self) ==
    CASE self[1] = "Token" /\ Tail(self) = None -> XSD.TOKEN
      [] self[1] = "Token" /\ Tail(self) # None -> TokenDatatype_iri(Tail(self))

StringDatatype_iri(self) ==
    CASE self[1] = "NormalizedString" /\ Tail(self) = None ->
            XSD.NORMALIZED_STRING
      [] self[1] = "NormalizedString" /\ Tail(self) # None ->
            NormalizedStringDatatype_iri(Tail(self))

NonPositiveIntegerDatatype_iri(self) ==
    CASE self[1] = "NegativeInteger" -> XSD.NEGATIVE_INTEGER

ShortDatatype_iri(self) ==
    CASE self[1] = "Byte" -> XSD.BYTE

IntDatatype_iri(self) ==
    CASE self[1] = "Short" /\ Tail(self) = None -> XSD.SHORT
      [] self[1] = "Short" /\ Tail(self) # None -> ShortDatatype_iri(Tail(self))

LongDatatype_iri(self) ==
    CASE self[1] = "Int" /\ Tail(self) = None -> XSD.INT
      [] self[1] = "Int" /\ Tail(self) # None -> IntDatatype_iri(Tail(self))

UnsignedShortDatatype_iri(self) ==
    CASE self[1] = "UnsignedByte" -> XSD.UNSIGNED_BYTE

UnsignedIntDatatype_iri(self) ==
    CASE self[1] = "UnsignedShort" /\ Tail(self) = None -> XSD.UNSIGNED_SHORT
      [] self[1] = "UnsignedShort" /\ Tail(self) # None ->
            UnsignedShortDatatype_iri(Tail(self))

UnsignedLongDatatype_iri(self) ==
    CASE self[1] = "UnsignedInt" /\ Tail(self) = None -> XSD.UNSIGNED_INT
      [] self[1] = "UnsignedInt" /\ Tail(self) # None ->
            UnsignedIntDatatype_iri(Tail(self))

NonNegativeIntegerDatatype_iri(self) ==
    CASE self[1] = "UnsignedLong" /\ Tail(self) = None -> XSD.UNSIGNED_LONG
      [] self[1] = "UnsignedLong" /\ Tail(self) # None ->
            UnsignedLongDatatype_iri(Tail(self))
      [] self[1] = "PositiveInteger" -> XSD.POSITIVE_INTEGER

IntegerDatatype_iri(self) ==
    CASE self[1] = "NonPositiveInteger" /\ Tail(self) = None ->
            XSD.NON_POSITIVE_INTEGER
      [] self[1] = "NonPositiveInteger" /\ Tail(self) # None ->
            NonPositiveIntegerDatatype_iri(Tail(self))
      [] self[1] = "Long" /\ Tail(self) = None -> XSD.LONG
      [] self[1] = "Long" /\ Tail(self) # None -> LongDatatype_iri(Tail(self))
      [] self[1] = "NonNegativeInteger" /\ Tail(self) = None ->
            XSD.NON_NEGATIVE_INTEGER
      [] self[1] = "NonNegativeInteger" /\ Tail(self) # None ->
            NonNegativeIntegerDatatype_iri(Tail(self))

DecimalDatatype_iri(self) ==
    CASE self[1] = "Integer" /\ Tail(self) = None -> XSD.INTEGER
      [] self[1] = "Integer" /\ Tail(self) # None ->
            IntegerDatatype_iri(Tail(self))

Datatype_iri(self) ==
    CASE self[1] = "String" /\ Tail(self) = None -> XSD.STRING
      [] self[1] = "String" /\ Tail(self) # None -> StringDatatype_iri(Tail(self))
      [] self[1] = "Boolean" -> XSD.BOOLEAN
      [] self[1] = "Decimal" /\ Tail(self) = None -> XSD.DECIMAL
      [] self[1] = "Decimal" /\ Tail(self) # None ->
            DecimalDatatype_iri(Tail(self))
      [] self[1] = "Float" -> XSD.FLOAT
      [] self[1] = "Double" -> XSD.DOUBLE
      [] self[1] = "Duration" -> XSD.DURATION
      [] self[1] = "DateTime" -> XSD.DATE_TIME
      [] self[1] = "Time" -> XSD.TIME
      [] self[1] = "Date" -> XSD.DATE
      [] self[1] = "GYearMonth" -> XSD.G_YEAR_MONTH
      [] self[1] = "GYear" -> XSD.G_YEAR
      [] self[1] = "GMonthDay" -> XSD.G_MONTH_DAY
      [] self[1] = "GDay" -> XSD.G_DAY
      [] self[1] = "GMonth" -> XSD.G_MONTH
      [] self[1] = "HexBinary" -> XSD.HEX_BINARY
      [] self[1] = "Base64Binary" -> XSD.BASE64_BINARY
      [] self[1] = "AnyUri" -> XSD.ANY_URI
      [] self[1] = "QName" -> XSD.Q_NAME
      [] self[1] = "Notation" -> XSD.NOTATION

(***************************************************************************)
(* from_iri(): the chain of comparisons, in the code's order.              *)
(***************************************************************************)
\* the lookup with each list-derived IRI answered by its item datatype
from_iri_ListAsItem(iri) ==
    LET of(i) == CHOOSE d \in Datatype : Datatype_iri(d) = i
    IN  IF iri \in MappedIris THEN Some(of(iri))
        ELSE IF iri = XSD.NMTOKENS THEN Some(of(XSD.NMTOKEN))
        ELSE IF iri = XSD.IDREFS THEN Some(of(XSD.IDREF))
        ELSE IF iri = XSD.ENTITIES THEN Some(of(XSD.ENTITY))
        ELSE None

from_iri(iri) ==
    IF iri = XSD.DURATION THEN Some(<<"Duration">>)
    ELSE IF iri = XSD.DATE_TIME THEN Some(<<"DateTime">>)
    ELSE IF iri = XSD.TIME THEN Some(<<"Time">>)
    ELSE IF iri = XSD.DATE THEN Some(<<"Date">>)
    ELSE IF iri = XSD.G_YEAR_MONTH THEN Some(<<"GYearMonth">>)
    ELSE IF iri = XSD.G_YEAR THEN Some(<<"GYear">>)
    ELSE IF iri = XSD.G_MONTH_DAY THEN Some(<<"GMonthDay">>)
    ELSE IF iri = XSD.G_DAY THEN Some(<<"GDay">>)
    ELSE IF iri = XSD.G_MONTH THEN Some(<<"GMonth">>)
    ELSE IF iri = XSD.STRING THEN Some(<<"String">>)
    ELSE IF iri = XSD.BOOLEAN THEN Some(<<"Boolean">>)
    ELSE IF iri = XSD.BASE64_BINARY THEN Some(<<"Base64Binary">>)
    ELSE IF iri = XSD.HEX_BINARY THEN Some(<<"HexBinary">>)
    ELSE IF iri = XSD.FLOAT THEN Some(<<"Float">>)
    ELSE IF iri = XSD.DECIMAL THEN Some(<<"Decimal">>)
    ELSE IF iri = XSD.DOUBLE THEN Some(<<"Double">>)
    ELSE IF iri = XSD.ANY_URI THEN Some(<<"AnyUri">>)
    ELSE IF iri = XSD.Q_NAME THEN Some(<<"QName">>)
    ELSE IF iri = XSD.NOTATION THEN Some(<<"Notation">>)
    ELSE IF iri = XSD.NORMALIZED_STRING
        THEN Some(<<"String", "NormalizedString">>)
    ELSE IF iri = XSD.TOKEN
        THEN Some(<<"String", "NormalizedString", "Token">>)
    ELSE IF iri = XSD.LANGUAGE
        THEN Some(<<"String", "NormalizedString", "Token", "Language">>)
    ELSE IF iri = XSD.NAME
        THEN Some(<<"String", "NormalizedString", "Token", "Name">>)
    ELSE IF iri = XSD.NMTOKEN
        THEN Some(<<"String", "NormalizedString", "Token", "NMToken">>)
    ELSE IF iri = XSD.NMTOKENS THEN None
    ELSE IF iri = XSD.NC_NAME
        THEN Some(<<"String", "NormalizedString", "Token", "Name", "NCName">>)
    ELSE IF iri = XSD.ID
        THEN Some(<<"String", "NormalizedString", "Token", "Name", "NCName",
                    "Id">>)
    ELSE IF iri = XSD.IDREF
        THEN Some(<<"String", "NormalizedString", "Token", "Name", "NCName",
                    "IdRef">>)
    ELSE IF iri = XSD.ENTITY
        THEN Some(<<"String", "NormalizedString", "Token", "Name", "NCName",
                    "Entity">>)
    ELSE IF iri = XSD.IDREFS THEN None
    ELSE IF iri = XSD.ENTITIES THEN None
    ELSE IF iri = XSD.INTEGER THEN Some(<<"Decimal", "Integer">>)
    ELSE IF iri = XSD.NON_POSITIVE_INTEGER
        THEN Some(<<"Decimal", "Integer", "NonPositiveInteger">>)
    ELSE IF iri = XSD.NEGATIVE_INTEGER
        THEN Some(<<"Decimal", "Integer", "NonPositiveInteger",
                    "NegativeInteger">>)
    ELSE IF iri = XSD.LONG THEN Some(<<"Decimal", "Integer", "Long">>)
    ELSE IF iri = XSD.INT THEN Some(<<"Decimal", "Integer", "Long", "Int">>)
    ELSE IF iri = XSD.SHORT
        THEN Some(<<"Decimal", "Integer", "Long", "Int", "Short">>)
    ELSE IF iri = XSD.BYTE
        THEN Some(<<"Decimal", "Integer", "Long", "Int", "Short", "Byte">>)
    ELSE IF iri = XSD.NON_NEGATIVE_INTEGER
        THEN Some(<<"Decimal", "Integer", "NonNegativeInteger">>)
    ELSE IF iri = XSD.UNSIGNED_LONG
        THEN Some(<<"Decimal", "Integer", "NonNegativeInteger",
                    "UnsignedLong">>)
    ELSE IF iri = XSD.UNSIGNED_INT
        THEN Some(<<"Decimal", "Integer", "NonNegativeInteger",
                    "UnsignedLong", "UnsignedInt">>)
    ELSE IF iri = XSD.UNSIGNED_SHORT
        THEN Some(<<"Decimal", "Integer", "NonNegativeInteger",
                    "UnsignedLong", "UnsignedInt", "UnsignedShort">>)
    ELSE IF iri = XSD.UNSIGNED_BYTE
        THEN Some(<<"Decimal", "Integer", "NonNegativeInteger",
                    "UnsignedLong", "UnsignedInt", "UnsignedShort",
                    "UnsignedByte">>)
    ELSE IF iri = XSD.POSITIVE_INTEGER
        THEN Some(<<"Decimal", "Integer", "NonNegativeInteger",
                    "PositiveInteger">>)
    ELSE None

(***************************************************************************)
(* Machine integers: a type and its bytes, least significant first, in     *)
(* two's complement for the signed types.  usize and isize are as wide as  *)
(* a pointer of the build.                                                 *)
(***************************************************************************)
UnsignedTypes == { "u8", "u16", "u32", "u64", "usize" }

SignedTypes == { "i8", "i16", "i32", "i64", "isize" }

NativeTypes == UnsignedTypes \cup SignedTypes

\* the pointer widths Rust builds for, in bytes
PointerWidths == { 2, 4, 8 }

\* the sizes in bytes a value of type ty may have
SizesOf(ty) ==
    CASE ty \in { "u8", "i8" } -> { 1 }
      [] ty \in { "u16", "i16" } -> { 2 }
      [] ty \in { "u32", "i32" } -> { 4 }
      [] ty \in { "u64", "i64" } -> { 8 }
      [] ty \in { "usize", "isize" } -> PointerWidths

Pad(m, k) == m \o [i \in 1 .. (k - Len(m)) |-> 0]

\* 2^(8 * k - 1)
MagHalf256(k) == [i \in 1 .. k |-> IF i = k THEN Base \div 2 ELSE 0]

\* whether the BigInt n is in the range of type ty on k bytes
FitsNative(ty, k, n) ==
    IF ty \in SignedTypes
    THEN IF is_negative(n) THEN MagCmp(n.mag, MagHalf256(k)) <= 0
         ELSE MagCmp(n.mag, MagHalf256(k)) < 0
    ELSE ~is_negative(n) /\ Len(n.mag) <= k

\* the machine integer of type ty on k bytes that holds n, for n in range
NativeFromBig(ty, k, n) ==
    [ty |-> ty,
     bytes |-> IF is_negative(n) THEN Pad(MagSub(MagPow256(k), n.mag), k)
               ELSE Pad(n.mag, k)]

\* the number a machine integer holds
BigFromNative(v) ==
    LET k == Len(v.bytes)
    IN  IF v.ty \in SignedTypes /\ v.bytes[k] >= Base \div 2
        THEN [sign |-> "Minus", mag |-> MagSub(MagPow256(k), Strip(v.bytes))]
        ELSE BigFromParts("Plus", Strip(v.bytes))

\* num-bigint's TryFrom<BigInt> for a machine integer: the error keeps n
BigInt_try_into(ty, k, n) ==
    IF FitsNative(ty, k, n) THEN Ok(NativeFromBig(ty, k, n))
    ELSE Err([kind |-> "TryFromBigIntError", original |-> n])

(***************************************************************************)
(* Text: a sequence of characters.                                         *)
(***************************************************************************)
DigitChars == <<"0", "1", "2", "3", "4", "5", "6", "7", "8", "9">>

IsDigit(c) == \E i \in 1 .. Len(DigitChars) : DigitChars[i] = c

DigitValue(c) == (CHOOSE i \in 1 .. Len(DigitChars) : DigitChars[i] = c) - 1

AllDigits(s) == s # <<>> /\ \A i \in 1 .. Len(s) : IsDigit(s[i])

AllZeros(s) == s # <<>> /\ \A i \in 1 .. Len(s) : s[i] = "0"

Unsigned(s) == IF s # <<>> /\ s[1] \in { "+", "-" } THEN Tail(s) ELSE s

RECURSIVE MagFromDecimal(_, _)
MagFromDecimal(s, m) ==
    IF s = <<>> THEN m
    ELSE MagFromDecimal(Tail(s),
            MagAdd(MagMulSmall(m, Len(DigitChars)),
                   MagFromNat(DigitValue(s[1]))))

\* a BigInt parser that knows no '+' sign
BigInt_from_str_NoPlus(s) ==
    IF AllDigits(IF s # <<>> /\ s[1] = "-" THEN Tail(s) ELSE s)
    THEN Ok(BigFromParts(IF s[1] = "-" THEN "Minus" ELSE "Plus",
                         MagFromDecimal(Unsigned(s), <<>>)))
    ELSE Err([kind |-> "ParseBigIntError"])

\* num-bigint's FromStr for BigInt: an optional sign, then decimal digits
BigInt_from_str(s) ==
    IF AllDigits(Unsigned(s))
    THEN Ok(BigFromParts(IF s[1] = "-" THEN "Minus" ELSE "Plus",
                         MagFromDecimal(Unsigned(s), <<>>)))
    ELSE Err([kind |-> "ParseBigIntError"])

\* the decimal digits of m, a leading zero kept in front of them
RECURSIVE MagToDecimal_LeadingZero(_, _)
MagToDecimal_LeadingZero(m, s) ==
    IF m = <<>> THEN <<"0">> \o s
    ELSE LET qr == MagDivRem(m, <<Len(DigitChars)>>)
         IN  MagToDecimal_LeadingZero(qr[1],
                <<DigitChars[(IF qr[2] = <<>> THEN 0 ELSE qr[2][1]) + 1]>> \o s)

\* the decimal digits of m # 0, most significant first, in front of s
RECURSIVE MagToDecimal(_, _)
MagToDecimal(m, s) ==
    IF m = <<>> THEN s
    ELSE LET qr == MagDivRem(m, <<Len(DigitChars)>>)
         IN  MagToDecimal(qr[1],
                <<DigitChars[(IF qr[2] = <<>> THEN 0 ELSE qr[2][1]) + 1]>> \o s)

\* num-bigint's Display for BigInt: "0", or the digits, '-' before them for
\* a negative number
BigInt_fmt(n) ==
    IF is_zero(n) THEN <<"0">>
    ELSE (IF is_negative(n) THEN <<"-">> ELSE <<>>) \o MagToDecimal(n.mag, <<>>)

(***************************************************************************)
(* The lexical spaces (crate::lexical).  The integer family follows XML    *)
(* Schema: an optional sign and digits, the sign and the digits agreeing   *)
(* with the datatype's value space.  The grammars whose text the model     *)
(* does not read (decimal, float, double, dateTime, hexBinary,             *)
(* base64Binary, anyURI) accept or reject as `accepts` says.               *)
(***************************************************************************)
lexical_Integer(s) == AllDigits(Unsigned(s))

lexical_NonNegativeInteger(s) ==
    lexical_Integer(s) /\ (s[1] = "-" => AllZeros(Tail(s)))

lexical_PositiveInteger(s) ==
    lexical_Integer(s) /\ s[1] # "-" /\ ~AllZeros(Unsigned(s))

lexical_NonPositiveInteger(s) ==
    lexical_Integer(s) /\ (s[1] # "-" => AllZeros(Unsigned(s)))

lexical_NegativeInteger(s) ==
    lexical_Integer(s) /\ s[1] = "-" /\ ~AllZeros(Tail(s))

lexical_Boolean(s) ==
    s \in { <<"t", "r", "u", "e">>, <<"f", "a", "l", "s", "e">>,
            <<"1">>, <<"0">> }

\* the machine integer behind each fixed-width value type
NativeOf ==
    [ Long |-> "i64", Int |-> "i32", Short |-> "i16", Byte |-> "i8",
      UnsignedLong |-> "u64", UnsignedInt |-> "u32",
      UnsignedShort |-> "u16", UnsignedByte |-> "u8" ]

FixedWidthValues == DOMAIN NativeOf

BigIntValues ==
    { "Integer", "NonPositiveInteger", "NegativeInteger",
      "NonNegativeInteger", "PositiveInteger" }

\* LexicalForm::parse for the value type T: whether the text is accepted
Lexical_parse(T, s, accepts) ==
    CASE T = "Integer" \/ T \in FixedWidthValues -> lexical_Integer(s)
      [] T = "NonNegativeInteger" -> lexical_NonNegativeInteger(s)
      [] T = "PositiveInteger" -> lexical_PositiveInteger(s)
      [] T = "NonPositiveInteger" -> lexical_NonPositiveInteger(s)
      [] T = "NegativeInteger" -> lexical_NegativeInteger(s)
      [] T = "Boolean" -> lexical_Boolean(s)
      [] OTHER -> accepts

\* From<&lexical::NonNegativeInteger> (and its siblings): the text is
\* parsed as a BigInt and the result unwrapped
BigInt_from_lexical(s) ==
    LET r == BigInt_from_str(s)
    IN  IF r.tag = "Ok" THEN Ok(r.value)
        ELSE Panic("unwrap on an Err value")

\* LexicalFormOf<T>::try_as_value of an accepted text
try_as_value(T, s) ==
    CASE T \in BigIntValues -> BigInt_from_lexical(s)
      [] T \in FixedWidthValues ->
            LET n == BigInt_from_lexical(s)
            IN  IF n.tag # "Ok" THEN n
                ELSE BigInt_try_into(NativeOf[T],
                                     CHOOSE k \in SizesOf(NativeOf[T]) : TRUE,
                                     n.value)
      [] T = "Boolean" -> Ok(s \in { <<"t", "r", "u", "e">>, <<"1">> })
      [] OTHER -> Ok(s)

\* ParseRdf::parse_rdf
parse_rdf(T, lexical_value, accepts) ==
    IF ~Lexical_parse(T, lexical_value, accepts)
    THEN Err([kind |-> "InvalidLexicalForm"])
    ELSE LET v == try_as_value(T, lexical_value)
         IN  IF v.tag = "Err"
             THEN Err([kind |-> "InvalidValue", error |-> v.error])
             ELSE v

ParseError == [kind |-> "ParseError"]

\* ParseRdf::parse_rdf(value).map(Value::T).map_err(|_| ParseError)
parse_as(T, value, accepts) ==
    LET r == parse_rdf(T, value, accepts)
    IN  CASE r.tag = "Ok" -> Ok([variant |-> T, v |-> r.value])
          [] r.tag = "Err" -> Err(ParseError)
          [] OTHER -> r

(***************************************************************************)
(* parse(): each enum's match, innermost enum first.                       *)
(***************************************************************************)
NonPositiveIntegerDatatype_parse(self, value, accepts) ==
    CASE self[1] = "NegativeInteger" ->
            parse_as("NegativeInteger", value, accepts)

\* the match with the byte arm wrapping its value as the parent's variant
ShortDatatype_parse_AsShort(self, value, accepts) ==
    CASE self[1] = "Byte" -> parse_as("Short", value, accepts)

ShortDatatype_parse(self, value, accepts) ==
    CASE self[1] = "Byte" -> parse_as("Byte", value, accepts)

IntDatatype_parse(self, value, accepts) ==
    CASE self[1] = "Short" /\ Tail(self) = None ->
            parse_as("Short", value, accepts)
      [] self[1] = "Short" /\ Tail(self) # None ->
            ShortDatatype_parse(Tail(self), value, accepts)

LongDatatype_parse(self, value, accepts) ==
    CASE self[1] = "Int" /\ Tail(self) = None ->
            parse_as("Int", value, accepts)
      [] self[1] = "Int" /\ Tail(self) # None ->
            IntDatatype_parse(Tail(self), value, accepts)

UnsignedShortDatatype_parse(self, value, accepts) ==
    CASE self[1] = "UnsignedByte" -> parse_as("UnsignedByte", value, accepts)

UnsignedIntDatatype_parse(self, value, accepts) ==
    CASE self[1] = "UnsignedShort" /\ Tail(self) = None ->
            parse_as("UnsignedShort", value, accepts)
      [] self[1] = "UnsignedShort" /\ Tail(self) # None ->
            UnsignedShortDatatype_parse(Tail(self), value, accepts)

UnsignedLongDatatype_parse(self, value, accepts) ==
    CASE self[1] = "UnsignedInt" /\ Tail(self) = None ->
            parse_as("UnsignedInt", value, accepts)
      [] self[1] = "UnsignedInt" /\ Tail(self) # None ->
            UnsignedIntDatatype_parse(Tail(self), value, accepts)

NonNegativeIntegerDatatype_parse(self, value, accepts) ==
    CASE self[1] = "UnsignedLong" /\ Tail(self) = None ->
            parse_as("UnsignedLong", value, accepts)
      [] self[1] = "UnsignedLong" /\ Tail(self) # None ->
            UnsignedLongDatatype_parse(Tail(self), value, accepts)
      [] self[1] = "PositiveInteger" ->
            parse_as("PositiveInteger", value, accepts)

\* the match with the nonNegativeInteger arm parsing as an integer
IntegerDatatype_parse_AsInteger(self, value, accepts) ==
    CASE self[1] = "NonPositiveInteger" /\ Tail(self) = None ->
            parse_as("NonPositiveInteger", value, accepts)
      [] self[1] = "NonPositiveInteger" /\ Tail(self) # None ->
            NonPositiveIntegerDatatype_parse(Tail(self), value, accepts)
      [] self[1] = "Long" /\ Tail(self) = None ->
            parse_as("Long", value, accepts)
      [] self[1] = "Long" /\ Tail(self) # None ->
            LongDatatype_parse(Tail(self), value, accepts)
      [] self[1] = "NonNegativeInteger" /\ Tail(self) = None ->
            LET r == parse_as("Integer", value, accepts)
            IN  IF r.tag = "Ok"
                THEN Ok([variant |-> "NonNegativeInteger", v |-> r.value.v])
                ELSE r
      [] self[1] = "NonNegativeInteger" /\ Tail(self) # None ->
            NonNegativeIntegerDatatype_parse(Tail(self), value, accepts)

IntegerDatatype_parse(self, value, accepts) ==
    CASE self[1] = "NonPositiveInteger" /\ Tail(self) = None ->
            parse_as("NonPositiveInteger", value, accepts)
      [] self[1] = "NonPositiveInteger" /\ Tail(self) # None ->
            NonPositiveIntegerDatatype_parse(Tail(self), value, accepts)
      [] self[1] = "Long" /\ Tail(self) = None ->
            parse_as("Long", value, accepts)
      [] self[1] = "Long" /\ Tail(self) # None ->
            LongDatatype_parse(Tail(self), value, accepts)
      [] self[1] = "NonNegativeInteger" /\ Tail(self) = None ->
            parse_as("NonNegativeInteger", value, accepts)
      [] self[1] = "NonNegativeInteger" /\ Tail(self) # None ->
            NonNegativeIntegerDatatype_parse(Tail(self), value, accepts)

DecimalDatatype_parse(self, value, accepts) ==
    CASE self[1] = "Integer" /\ Tail(self) = None ->
            parse_as("Integer", value, accepts)
      [] self[1] = "Integer" /\ Tail(self) # None ->
            IntegerDatatype_parse(Tail(self), value, accepts)

Datatype_parse(self, value, accepts) ==
    CASE self[1] = "String" /\ Tail(self) = None ->
            Ok([variant |-> "String", v |-> value])
      [] self[1] = "String" /\ Tail(self) # None -> todo
      [] self[1] = "Boolean" -> parse_as("Boolean", value, accepts)
      [] self[1] = "Decimal" /\ Tail(self) = None ->
            parse_as("Decimal", value, accepts)
      [] self[1] = "Decimal" /\ Tail(self) # None ->
            DecimalDatatype_parse(Tail(self), value, accepts)
      [] self[1] = "Float" -> parse_as("Float", value, accepts)
      [] self[1] = "Double" -> parse_as("Double", value, accepts)
      [] self[1] = "Duration" -> todo
      [] self[1] = "DateTime" -> parse_as("DateTime", value, accepts)
      [] self[1] = "Time" -> todo
      [] self[1] = "Date" -> todo
      [] self[1] = "GYearMonth" -> todo
      [] self[1] = "GYear" -> todo
      [] self[1] = "GMonthDay" -> todo
      [] self[1] = "GDay" -> todo
      [] self[1] = "GMonth" -> todo
      [] self[1] = "HexBinary" -> parse_as("HexBinary", value, accepts)
      [] self[1] = "Base64Binary" -> parse_as("Base64Binary", value, accepts)
      [] self[1] = "AnyUri" -> parse_as("AnyUri", value, accepts)
      [] self[1] = "QName" -> todo
      [] self[1] = "Notation" -> todo

(***************************************************************************)
(* impl_from!: for each line `ty: T => Self::V(output)` of a block, a      *)
(* From<T> giving Self::V(Some(output)) and a From<Option<T>> giving       *)
(* Self::V(input_opt.map(|ty| output)).  is_option tells the two apart;    *)
(* each block below is one impl_from! invocation, from_ty naming the line. *)
(***************************************************************************)
impl_from(is_option, variant, input, output) ==
    IF is_option /\ input = None THEN <<variant>> \o None
    ELSE <<variant>> \o Some(output)

UnsignedIntDatatype_from(is_option, from_ty, ty) ==
    CASE from_ty = "UnsignedShortDatatype" ->
            impl_from(is_option, "UnsignedShort", ty, ty)

UnsignedLongDatatype_from(is_option, from_ty, ty) ==
    CASE from_ty = "UnsignedIntDatatype" ->
            impl_from(is_option, "UnsignedInt", ty, ty)
      [] from_ty = "UnsignedShortDatatype" ->
            impl_from(is_option, "UnsignedInt", ty,
                      UnsignedIntDatatype_from(FALSE, from_ty, ty))

NonNegativeIntegerDatatype_from(is_option, from_ty, ty) ==
    CASE from_ty = "UnsignedLongDatatype" ->
            impl_from(is_option, "UnsignedLong", ty, ty)
      [] from_ty \in { "UnsignedIntDatatype", "UnsignedShortDatatype" } ->
            impl_from(is_option, "UnsignedLong", ty,
                      UnsignedLongDatatype_from(FALSE, from_ty, ty))

IntDatatype_from(is_option, from_ty, ty) ==
    CASE from_ty = "ShortDatatype" -> impl_from(is_option, "Short", ty, ty)

LongDatatype_from(is_option, from_ty, ty) ==
    CASE from_ty = "IntDatatype" -> impl_from(is_option, "Int", ty, ty)
      [] from_ty = "ShortDatatype" ->
            impl_from(is_option, "Int", ty,
                      IntDatatype_from(FALSE, from_ty, ty))

IntegerDatatype_from(is_option, from_ty, ty) ==
    CASE from_ty = "NonPositiveIntegerDatatype" ->
            impl_from(is_option, "NonPositiveInteger", ty, ty)
      [] from_ty = "LongDatatype" -> impl_from(is_option, "Long", ty, ty)
      [] from_ty \in { "IntDatatype", "ShortDatatype" } ->
            impl_from(is_option, "Long", ty,
                      LongDatatype_from(FALSE, from_ty, ty))
      [] from_ty = "NonNegativeIntegerDatatype" ->
            impl_from(is_option, "NonNegativeInteger", ty, ty)
      [] from_ty \in { "UnsignedLongDatatype", "UnsignedIntDatatype",
                       "UnsignedShortDatatype" } ->
            impl_from(is_option, "NonNegativeInteger", ty,
                      NonNegativeIntegerDatatype_from(FALSE, from_ty, ty))

DecimalDatatype_from(is_option, from_ty, ty) ==
    CASE from_ty = "IntegerDatatype" -> impl_from(is_option, "Integer", ty, ty)
      [] from_ty \in { "NonPositiveIntegerDatatype", "LongDatatype",
                       "IntDatatype", "ShortDatatype",
                       "NonNegativeIntegerDatatype", "UnsignedLongDatatype",
                       "UnsignedIntDatatype", "UnsignedShortDatatype" } ->
            impl_from(is_option, "Integer", ty,
                      IntegerDatatype_from(FALSE, from_ty, ty))

Datatype_from(is_option, from_ty, ty) ==
    CASE from_ty = "StringDatatype" -> impl_from(is_option, "String", ty, ty)
      [] from_ty = "DecimalDatatype" -> impl_from(is_option, "Decimal", ty, ty)
      [] from_ty \in { "IntegerDatatype", "NonPositiveIntegerDatatype",
                       "LongDatatype", "IntDatatype", "ShortDatatype",
                       "NonNegativeIntegerDatatype", "UnsignedLongDatatype",
                       "UnsignedIntDatatype", "UnsignedShortDatatype" } ->
            impl_from(is_option, "Decimal", ty,
                      DecimalDatatype_from(FALSE, from_ty, ty))

(***************************************************************************)
(* Classification: the narrowest datatype of a value.                      *)
(***************************************************************************)
\* crate::value::decimal::{U8_MAX, U16_MAX, U32_MAX, U64_MAX}
U8_MAX == [sign |-> "Plus", mag |-> MagMax256(1)]

U16_MAX == [sign |-> "Plus", mag |-> MagMax256(2)]

U32_MAX == [sign |-> "Plus", mag |-> MagMax256(4)]

U64_MAX == [sign |-> "Plus", mag |-> MagMax256(8)]

\* the classification with each bound excluded from its own rung
non_negative_integer_type_StrictBounds(self) ==
    IF BigCmp(self, BigZero) > 0
    THEN IF BigCmp(self, U8_MAX) < 0
         THEN Some(NonNegativeIntegerDatatype_from(FALSE,
                        "UnsignedShortDatatype", <<"UnsignedByte">>))
         ELSE IF BigCmp(self, U16_MAX) < 0
         THEN Some(NonNegativeIntegerDatatype_from(FALSE,
                        "UnsignedIntDatatype", <<"UnsignedShort">>))
         ELSE IF BigCmp(self, U32_MAX) < 0
         THEN Some(NonNegativeIntegerDatatype_from(FALSE,
                        "UnsignedLongDatatype", <<"UnsignedInt">>))
         ELSE IF BigCmp(self, U64_MAX) < 0
         THEN Some(<<"UnsignedLong">>)
         ELSE Some(<<"PositiveInteger">>)
    ELSE Some(NonNegativeIntegerDatatype_from(FALSE,
                   "UnsignedShortDatatype", <<"UnsignedByte">>))

non_negative_integer_type(self) ==
    IF BigCmp(self, BigZero) > 0
    THEN IF BigCmp(self, U8_MAX) <= 0
         THEN Some(NonNegativeIntegerDatatype_from(FALSE,
                        "UnsignedShortDatatype", <<"UnsignedByte">>))
         ELSE IF BigCmp(self, U16_MAX) <= 0
         THEN Some(NonNegativeIntegerDatatype_from(FALSE,
                        "UnsignedIntDatatype", <<"UnsignedShort">>))
         ELSE IF BigCmp(self, U32_MAX) <= 0
         THEN Some(NonNegativeIntegerDatatype_from(FALSE,
                        "UnsignedLongDatatype", <<"UnsignedInt">>))
         ELSE IF BigCmp(self, U64_MAX) <= 0
         THEN Some(<<"UnsignedLong">>)
         ELSE Some(<<"PositiveInteger">>)
    ELSE Some(NonNegativeIntegerDatatype_from(FALSE,
                   "UnsignedShortDatatype", <<"UnsignedByte">>))

NonNegativeInteger_type_(self) ==
    Datatype_from(TRUE, "NonNegativeIntegerDatatype",
                  non_negative_integer_type(self))

\* u8::MAX as u64 and its likes: the largest value of k bytes
UnsignedMax(k) == [sign |-> "Plus", mag |-> MagMax256(k)]

unsigned_long_type(self) ==
    IF BigCmp(BigFromNative(self), UnsignedMax(1)) <= 0
    THEN Some(UnsignedLongDatatype_from(FALSE, "UnsignedShortDatatype",
                                        <<"UnsignedByte">>))
    ELSE IF BigCmp(BigFromNative(self), UnsignedMax(2)) <= 0
    THEN Some(UnsignedLongDatatype_from(FALSE, "UnsignedIntDatatype",
                                        <<"UnsignedShort">>))
    ELSE IF BigCmp(BigFromNative(self), UnsignedMax(4)) <= 0
    THEN Some(<<"UnsignedInt">>)
    ELSE None

UnsignedLong_type_(self) ==
    Datatype_from(TRUE, "UnsignedLongDatatype", unsigned_long_type(self))

unsigned_int_type(self) ==
    IF BigCmp(BigFromNative(self), UnsignedMax(1)) <= 0
    THEN Some(UnsignedIntDatatype_from(FALSE, "UnsignedShortDatatype",
                                       <<"UnsignedByte">>))
    ELSE IF BigCmp(BigFromNative(self), UnsignedMax(2)) <= 0
    THEN Some(<<"UnsignedShort">>)
    ELSE None

UnsignedInt_type_(self) ==
    Datatype_from(TRUE, "UnsignedIntDatatype", unsigned_int_type(self))

unsigned_short_type(self) ==
    IF BigCmp(BigFromNative(self), UnsignedMax(1)) <= 0
    THEN Some(<<"UnsignedByte">>)
    ELSE None

UnsignedShort_type_(self) ==
    Datatype_from(TRUE, "UnsignedShortDatatype", unsigned_short_type(self))

UnsignedByte_type_(self) ==
    Datatype_from(FALSE, "UnsignedShortDatatype", <<"UnsignedByte">>)

non_positive_integer_type(self) ==
    IF BigCmp(self, BigZero) > 0 THEN Some(<<"NegativeInteger">>)
    ELSE None

NonPositiveInteger_type_(self) ==
    Datatype_from(TRUE, "NonPositiveIntegerDatatype",
                  non_positive_integer_type(self))

(***************************************************************************)
(* Narrowing into a machine integer: try_into!.                            *)
(***************************************************************************)
\* the narrowing with the rejected value lost from the error
NonNegativeInteger_try_into_LosesValue(ty, k, value) ==
    LET r == BigInt_try_into(ty, k, value)
    IN  IF r.tag = "Ok" THEN r
        ELSE Err([kind |-> "NonNegativeIntegerOutOfTargetBounds",
                  value |-> BigZero])

NonNegativeInteger_try_into(ty, k, value) ==
    LET r == BigInt_try_into(ty, k, value)
    IN  IF r.tag = "Ok" THEN r
        ELSE Err([kind |-> "NonNegativeIntegerOutOfTargetBounds",
                  value |-> r.error.original])

NonPositiveInteger_try_into(ty, k, value) ==
    LET r == BigInt_try_into(ty, k, value)
    IN  IF r.tag = "Ok" THEN r
        ELSE Err([kind |-> "NonPositiveIntegerOutOfTargetBounds",
                  value |-> r.error.original])

(***************************************************************************)
(* NonNegativeInteger: construction and arithmetic.  An operation that     *)
(* returns gives Ok(value); one that aborts gives Panic.                   *)
(***************************************************************************)
zero == BigZero

\* FromStr for NonNegativeInteger
NonNegativeInteger_from_str(s) ==
    IF ~lexical_NonNegativeInteger(s)
    THEN Err([kind |-> "InvalidNonNegativeInteger"])
    ELSE BigInt_from_lexical(s)

\* TryFrom<Integer> for NonNegativeInteger
NonNegativeInteger_try_from(value) ==
    IF is_negative(value)
    THEN Err([kind |-> "IntegerIsNegative", value |-> value])
    ELSE Ok(value)

\* TryFrom<Integer> for NonPositiveInteger, rejecting zero too
NonPositiveInteger_try_from_RejectsZero(value) ==
    IF ~is_negative(value)
    THEN Err([kind |-> "IntegerIsPositive", value |-> value])
    ELSE Ok(value)

NonPositiveInteger_try_from(value) ==
    IF is_positive(value)
    THEN Err([kind |-> "IntegerIsPositive", value |-> value])
    ELSE Ok(value)

(***************************************************************************)
(* NonPositiveInteger from bytes.                                          *)
(***************************************************************************)
Reverse(bytes) == [i \in 1 .. Len(bytes) |-> bytes[Len(bytes) + 1 - i]]

\* num-bigint's BigInt::from_bytes_le: the bytes are the magnitude, lowest
\* first, and a zero magnitude has no sign
BigInt_from_bytes_le(sign, bytes) == BigFromParts(sign, Strip(bytes))

BigInt_from_bytes_be(sign, bytes) == BigInt_from_bytes_le(sign, Reverse(bytes))

\* num-bigint's BigInt::from_signed_bytes_le: two's complement on
\* Len(bytes) bytes, the top bit of the last byte being the sign
BigInt_from_signed_bytes_le(bytes) ==
    IF bytes = <<>> THEN BigZero
    ELSE IF bytes[Len(bytes)] >= Base \div 2
    THEN [sign |-> "Minus",
          mag |-> MagSub(MagPow256(Len(bytes)), Strip(bytes))]
    ELSE BigFromParts("Plus", Strip(bytes))

BigInt_from_signed_bytes_be(bytes) == BigInt_from_signed_bytes_le(Reverse(bytes))

\* Integer is a BigInt under another name
Integer_from_signed_bytes_be(bytes) == BigInt_from_signed_bytes_be(bytes)

Integer_from_signed_bytes_le(bytes) == BigInt_from_signed_bytes_le(bytes)

\* the bytes taken as a magnitude above zero
NonPositiveInteger_from_bytes_be_Plus(bytes) == BigInt_from_bytes_be("Plus", bytes)

NonPositiveInteger_from_bytes_be(bytes) == BigInt_from_bytes_be("Minus", bytes)

NonPositiveInteger_from_bytes_le(bytes) == BigInt_from_bytes_le("Minus", bytes)

NonPositiveInteger_from_signed_bytes_be(bytes) ==
    NonPositiveInteger_try_from(Integer_from_signed_bytes_be(bytes))

NonPositiveInteger_from_signed_bytes_le(bytes) ==
    NonPositiveInteger_try_from(Integer_from_signed_bytes_le(bytes))

\* num-bigint's Div: a zero divisor aborts
BigInt_div(a, b) ==
    IF is_zero(b) THEN Panic("attempt to divide by zero")
    ELSE Ok(BigDiv(a, b))

NonNegativeInteger_add(self, rhs) == Ok(BigAdd(self, rhs))

NonNegativeInteger_sub(self, rhs) == Ok(BigSub(self, rhs))

NonNegativeInteger_mul(self, rhs) == Ok(BigMul(self, rhs))

NonNegativeInteger_div(self, rhs) == BigInt_div(self, rhs)

\* assert!(!n.is_negative()); Self(n)
assert_not_negative(n) ==
    IF is_negative(n) THEN Panic("assertion failed: !n.is_negative()")
    ELSE Ok(n)

\* impl_arithmetic!: Add<$ty>, Sub<$ty>, Mul<$ty> and Div<$ty>
\* the sum taken at the width of rhs: a result past the type's greatest
\* value wraps around
NonNegativeInteger_add_native_Wrapping(self, rhs) ==
    LET k == Len(rhs.bytes)
        n == BigAdd(self, BigFromNative(rhs))
    IN  assert_not_negative(
            IF FitsNative(rhs.ty, k, n) \/ is_negative(n) THEN n
            ELSE BigSub(n, [sign |-> "Plus", mag |-> MagPow256(k)]))

NonNegativeInteger_add_native(self, rhs) ==
    assert_not_negative(BigAdd(self, BigFromNative(rhs)))

NonNegativeInteger_sub_native(self, rhs) ==
    assert_not_negative(BigSub(self, BigFromNative(rhs)))

NonNegativeInteger_mul_native(self, rhs) ==
    assert_not_negative(BigMul(self, BigFromNative(rhs)))

NonNegativeInteger_div_native(self, rhs) ==
    LET n == BigInt_div(self, BigFromNative(rhs))
    IN  IF n.tag = "Ok" THEN assert_not_negative(n.value) ELSE n

(***************************************************************************)
(* NonNegativeInteger and NonPositiveInteger as text.                      *)
(***************************************************************************)
\* Display for NonNegativeInteger
NonNegativeInteger_fmt(self) == BigInt_fmt(self)

\* format!("{}", self), taken unchecked as a lexical form
NonNegativeInteger_lexical_representation(self) == NonNegativeInteger_fmt(self)

\* a Display that writes the magnitude only
NonPositiveInteger_fmt_NoSign(self) ==
    IF is_zero(self) THEN <<"0">> ELSE MagToDecimal(self.mag, <<>>)

\* Display for NonPositiveInteger
NonPositiveInteger_fmt(self) == BigInt_fmt(self)

NonPositiveInteger_lexical_representation(self) == NonPositiveInteger_fmt(self)

\* FromStr for NonPositiveInteger
NonPositiveInteger_from_str(s) ==
    IF ~lexical_NonPositiveInteger(s)
    THEN Err([kind |-> "InvalidNonPositiveInteger"])
    ELSE BigInt_from_lexical(s)

(***************************************************************************)
(* Bounds of the model.                                                    *)
(***************************************************************************)
\* the longest text handed to parse
MaxTextLen == 3

TextChars == { "+", "-", "0", "1", "5", "a" }

Texts == UNION { [1 .. n -> TextChars] : n \in 0 .. MaxTextLen }

\* how far from a boundary the numbers handed to an operation lie
MaxDelta == 1

\* the least and the greatest value of type ty on k bytes
NativeMin(ty, k) ==
    IF ty \in SignedTypes THEN [sign |-> "Minus", mag |-> MagHalf256(k)]
    ELSE BigZero

NativeMax(ty, k) ==
    IF ty \in SignedTypes
    THEN BigSub([sign |-> "Plus", mag |-> MagHalf256(k)], BigFromInt(1))
    ELSE [sign |-> "Plus", mag |-> MagMax256(k)]

Widths == { 1, 2, 4, 8 }

\* zero and the ends of every machine integer's range
Boundaries ==
    { BigZero }
        \cup { [sign |-> s, mag |-> MagPow256(k)] :
                  s \in { "Plus", "Minus" }, k \in Widths }
        \cup { [sign |-> s, mag |-> MagHalf256(k)] :
                  s \in { "Plus", "Minus" }, k \in Widths }

NearValues ==
    { BigAdd(b, BigFromInt(d)) : b \in Boundaries, d \in -MaxDelta .. MaxDelta }

\* the numbers handed to TryFrom<Integer>
IntegerValues == NearValues

\* the numbers a NonNegativeInteger may hold: its subtraction does not
\* keep them above zero
NonNegativeIntegers == NearValues

NonPositiveIntegers == { v \in NearValues : ~is_positive(v) }

NativeValues(ty, k) ==
    { NativeFromBig(ty, k, v) : v \in { x \in NearValues : FitsNative(ty, k, x) } }

\* the machine integers handed to arithmetic: near zero and near the ends
\* of their type
NativeOperands ==
    UNION { { NativeFromBig(ty[1], ty[2], v) :
                 v \in { x \in { BigAdd(b, BigFromInt(d)) :
                                    b \in { BigZero, NativeMin(ty[1], ty[2]),
                                            NativeMax(ty[1], ty[2]) },
                                    d \in -MaxDelta .. MaxDelta } :
                             FitsNative(ty[1], ty[2], x) } } :
            ty \in UNION { { <<t, k>> : k \in SizesOf(t) } : t \in NativeTypes } }

\* the NonNegativeInteger values the caller holds on to at once
MaxLive == 2

\* the greatest magnitude of a value the caller holds on to
MaxKept == 3

InWindow(v) == Len(v.mag) = 0 \/ (Len(v.mag) = 1 /\ v.mag[1] <= MaxKept)

(***************************************************************************)
(* The caller.  Every operation of the crate is a pure function of its     *)
(* inputs; the caller makes one call at a time, and the state keeps the    *)
(* call, its inputs and its result until the caller lets go of them.       *)
(***************************************************************************)
Init ==
    /\ op = "idle"
    /\ arg = None
    /\ res = None
    /\ acc = None

\* the caller drops the result of its last call
Forget ==
    /\ op # "idle"
    /\ op' = "idle"
    /\ arg' = None
    /\ res' = None
    /\ UNCHANGED acc

\* Datatype::from_iri(iri)
CallFromIri ==
    /\ op = "idle"
    /\ \E iri \in Iris :
          /\ op' = "from_iri"
          /\ arg' = [iri |-> iri]
          /\ res' = from_iri(iri)
    /\ UNCHANGED acc

\* d.iri()
CallIri ==
    /\ op = "idle"
    /\ \E d \in Datatype :
          /\ op' = "iri"
          /\ arg' = [datatype |-> d]
          /\ res' = Datatype_iri(d)
    /\ UNCHANGED acc

\* d.parse(value)
CallParse ==
    /\ op = "idle"
    /\ \E d \in Datatype, value \in Texts, accepts \in BOOLEAN :
          /\ op' = "parse"
          /\ arg' = [datatype |-> d, value |-> value]
          /\ res' = Datatype_parse(d, value, accepts)
    /\ UNCHANGED acc

NextCatalog == CallParse \/ CallFromIri \/ CallIri \/ Forget

SpecCatalog == Init /\ [][NextCatalog]_vars

(***************************************************************************)
(* Classification and narrowing of numbers.                                *)
(***************************************************************************)
\* v.non_negative_integer_type()
CallNonNegativeIntegerType ==
    /\ op = "idle"
    /\ \E v \in NonNegativeIntegers :
          /\ op' = "non_negative_integer_type"
          /\ arg' = [self |-> v]
          /\ res' = non_negative_integer_type(v)
    /\ UNCHANGED acc

\* XsdDatatype::type_ of a NonNegativeInteger
CallTypeNonNegativeInteger ==
    /\ op = "idle"
    /\ \E v \in NonNegativeIntegers :
          /\ op' = "type_"
          /\ arg' = [self_ty |-> "NonNegativeInteger", self |-> v]
          /\ res' = NonNegativeInteger_type_(v)
    /\ UNCHANGED acc

\* XsdDatatype::type_ of a NonPositiveInteger
CallTypeNonPositiveInteger ==
    /\ op = "idle"
    /\ \E v \in NonPositiveIntegers :
          /\ op' = "type_"
          /\ arg' = [self_ty |-> "NonPositiveInteger", self |-> v]
          /\ res' = NonPositiveInteger_type_(v)
    /\ UNCHANGED acc

\* XsdDatatype::type_ of an UnsignedLong
CallTypeUnsignedLong ==
    /\ op = "idle"
    /\ \E v \in NativeValues("u64", 8) :
          /\ op' = "type_"
          /\ arg' = [self_ty |-> "UnsignedLong", self |-> v]
          /\ res' = UnsignedLong_type_(v)
    /\ UNCHANGED acc

\* XsdDatatype::type_ of an UnsignedInt
CallTypeUnsignedInt ==
    /\ op = "idle"
    /\ \E v \in NativeValues("u32", 4) :
          /\ op' = "type_"
          /\ arg' = [self_ty |-> "UnsignedInt", self |-> v]
          /\ res' = UnsignedInt_type_(v)
    /\ UNCHANGED acc

\* XsdDatatype::type_ of an UnsignedShort
CallTypeUnsignedShort ==
    /\ op = "idle"
    /\ \E v \in NativeValues("u16", 2) :
          /\ op' = "type_"
          /\ arg' = [self_ty |-> "UnsignedShort", self |-> v]
          /\ res' = UnsignedShort_type_(v)
    /\ UNCHANGED acc

\* XsdDatatype::type_ of an UnsignedByte
CallTypeUnsignedByte ==
    /\ op = "idle"
    /\ \E v \in NativeValues("u8", 1) :
          /\ op' = "type_"
          /\ arg' = [self_ty |-> "UnsignedByte", self |-> v]
          /\ res' = UnsignedByte_type_(v)
    /\ UNCHANGED acc

\* <$ty>::try_from(v) for a NonNegativeInteger v
CallTryIntoNonNegativeInteger ==
    /\ op = "idle"
    /\ \E v \in NonNegativeIntegers, ty \in NativeTypes :
          \E k \in SizesOf(ty) :
             /\ op' = "try_into"
             /\ arg' = [from |-> "NonNegativeInteger", value |-> v,
                        ty |-> ty, k |-> k]
             /\ res' = NonNegativeInteger_try_into(ty, k, v)
    /\ UNCHANGED acc

\* <$ty>::try_from(v) for a NonPositiveInteger v
CallTryIntoNonPositiveInteger ==
    /\ op = "idle"
    /\ \E v \in NonPositiveIntegers, ty \in NativeTypes :
          \E k \in SizesOf(ty) :
             /\ op' = "try_into"
             /\ arg' = [from |-> "NonPositiveInteger", value |-> v,
                        ty |-> ty, k |-> k]
             /\ res' = NonPositiveInteger_try_into(ty, k, v)
    /\ UNCHANGED acc

NextNarrow ==
    \/ CallNonNegativeIntegerType
    \/ CallTypeNonNegativeInteger
    \/ CallTypeNonPositiveInteger
    \/ CallTypeUnsignedLong
    \/ CallTypeUnsignedInt
    \/ CallTypeUnsignedShort
    \/ CallTypeUnsignedByte
    \/ CallTryIntoNonNegativeInteger
    \/ CallTryIntoNonPositiveInteger
    \/ Forget

SpecNarrow == Init /\ [][NextNarrow]_vars

(***************************************************************************)
(* Arithmetic.  acc holds the NonNegativeInteger values the caller has,    *)
(* the latest last.  An operation takes its operands out of acc (they are  *)
(* moved into it); the caller keeps the value returned when it is small    *)
(* and there is room, and lets go of it otherwise.                         *)
(***************************************************************************)
Keep(values, r) ==
    IF r.tag = "Ok" /\ InWindow(r.value) /\ Len(values) < MaxLive
    THEN Append(values, r.value)
    ELSE values

Front(values) == SubSeq(values, 1, Len(values) - 1)

Last(values) == values[Len(values)]

\* NonNegativeInteger::zero()
CallZero ==
    /\ op = "idle"
    /\ op' = "zero"
    /\ arg' = None
    /\ res' = Ok(zero)
    /\ acc' = Keep(acc, Ok(zero))

\* s.parse::<NonNegativeInteger>()
CallFromStr ==
    /\ op = "idle"
    /\ \E s \in Texts :
          /\ op' = "from_str"
          /\ arg' = [s |-> s]
          /\ res' = NonNegativeInteger_from_str(s)
          /\ acc' = Keep(acc, NonNegativeInteger_from_str(s))

\* NonNegativeInteger::try_from(value) for an Integer value
CallTryFromInteger ==
    /\ op = "idle"
    /\ \E value \in IntegerValues :
          /\ op' = "try_from"
          /\ arg' = [value |-> value]
          /\ res' = NonNegativeInteger_try_from(value)
          /\ acc' = Keep(acc, NonNegativeInteger_try_from(value))

\* a + b
CallAdd ==
    /\ op = "idle"
    /\ Len(acc) >= 2
    /\ op' = "add"
    /\ arg' = [self |-> acc[1], rhs_ty |-> "NonNegativeInteger", rhs |-> acc[2]]
    /\ res' = NonNegativeInteger_add(acc[1], acc[2])
    /\ acc' = Keep(Tail(Tail(acc)), NonNegativeInteger_add(acc[1], acc[2]))

\* a - b
CallSub ==
    /\ op = "idle"
    /\ Len(acc) >= 2
    /\ op' = "sub"
    /\ arg' = [self |-> acc[1], rhs_ty |-> "NonNegativeInteger", rhs |-> acc[2]]
    /\ res' = NonNegativeInteger_sub(acc[1], acc[2])
    /\ acc' = Keep(Tail(Tail(acc)), NonNegativeInteger_sub(acc[1], acc[2]))

\* a * b
CallMul ==
    /\ op = "idle"
    /\ Len(acc) >= 2
    /\ op' = "mul"
    /\ arg' = [self |-> acc[1], rhs_ty |-> "NonNegativeInteger", rhs |-> acc[2]]
    /\ res' = NonNegativeInteger_mul(acc[1], acc[2])
    /\ acc' = Keep(Tail(Tail(acc)), NonNegativeInteger_mul(acc[1], acc[2]))

\* a / b
CallDiv ==
    /\ op = "idle"
    /\ Len(acc) >= 2
    /\ op' = "div"
    /\ arg' = [self |-> acc[1], rhs_ty |-> "NonNegativeInteger", rhs |-> acc[2]]
    /\ res' = NonNegativeInteger_div(acc[1], acc[2])
    /\ acc' = Keep(Tail(Tail(acc)), NonNegativeInteger_div(acc[1], acc[2]))

\* a + n for a machine integer n
CallAddNative ==
    /\ op = "idle"
    /\ Len(acc) >= 1
    /\ \E n \in NativeOperands :
          /\ op' = "add"
          /\ arg' = [self |-> Last(acc), rhs_ty |-> n.ty, rhs |-> n]
          /\ res' = NonNegativeInteger_add_native(Last(acc), n)
          /\ acc' = Keep(Front(acc), NonNegativeInteger_add_native(Last(acc), n))

\* a - n for a machine integer n
CallSubNative ==
    /\ op = "idle"
    /\ Len(acc) >= 1
    /\ \E n \in NativeOperands :
          /\ op' = "sub"
          /\ arg' = [self |-> Last(acc), rhs_ty |-> n.ty, rhs |-> n]
          /\ res' = NonNegativeInteger_sub_native(Last(acc), n)
          /\ acc' = Keep(Front(acc), NonNegativeInteger_sub_native(Last(acc), n))

\* a * n for a machine integer n
CallMulNative ==
    /\ op = "idle"
    /\ Len(acc) >= 1
    /\ \E n \in NativeOperands :
          /\ op' = "mul"
          /\ arg' = [self |-> Last(acc), rhs_ty |-> n.ty, rhs |-> n]
          /\ res' = NonNegativeInteger_mul_native(Last(acc), n)
          /\ acc' = Keep(Front(acc), NonNegativeInteger_mul_native(Last(acc), n))

\* a / n for a machine integer n
CallDivNative ==
    /\ op = "idle"
    /\ Len(acc) >= 1
    /\ \E n \in NativeOperands :
          /\ op' = "div"
          /\ arg' = [self |-> Last(acc), rhs_ty |-> n.ty, rhs |-> n]
          /\ res' = NonNegativeInteger_div_native(Last(acc), n)
          /\ acc' = Keep(Front(acc), NonNegativeInteger_div_native(Last(acc), n))

\* the caller lets go of one of its values
Drop ==
    /\ op = "idle"
    /\ Len(acc) >= 1
    /\ acc' \in { Tail(acc), Front(acc) }
    /\ UNCHANGED <<op, arg, res>>

NextArith ==
    \/ CallZero
    \/ CallFromStr
    \/ CallTryFromInteger
    \/ CallAdd
    \/ CallSub
    \/ CallMul
    \/ CallDiv
    \/ CallAddNative
    \/ CallSubNative
    \/ CallMulNative
    \/ CallDivNative
    \/ Drop
    \/ Forget

SpecArith == Init /\ [][NextArith]_vars

(***************************************************************************)
(* Numbers as text.                                                        *)
(***************************************************************************)
\* v.to_string() for a NonNegativeInteger v
CallDisplayNonNegativeInteger ==
    /\ op = "idle"
    /\ \E v \in NonNegativeIntegers :
          /\ op' = "to_string"
          /\ arg' = [self_ty |-> "NonNegativeInteger", self |-> v]
          /\ res' = NonNegativeInteger_fmt(v)
    /\ UNCHANGED acc

\* v.to_string() for a NonPositiveInteger v
CallDisplayNonPositiveInteger ==
    /\ op = "idle"
    /\ \E v \in NonPositiveIntegers :
          /\ op' = "to_string"
          /\ arg' = [self_ty |-> "NonPositiveInteger", self |-> v]
          /\ res' = NonPositiveInteger_fmt(v)
    /\ UNCHANGED acc

\* v.lexical_representation() for a NonNegativeInteger v
CallLexicalRepresentationNonNegativeInteger ==
    /\ op = "idle"
    /\ \E v \in NonNegativeIntegers :
          /\ op' = "lexical_representation"
          /\ arg' = [self_ty |-> "NonNegativeInteger", self |-> v]
          /\ res' = NonNegativeInteger_lexical_representation(v)
    /\ UNCHANGED acc

\* v.lexical_representation() for a NonPositiveInteger v
CallLexicalRepresentationNonPositiveInteger ==
    /\ op = "idle"
    /\ \E v \in NonPositiveIntegers :
          /\ op' = "lexical_representation"
          /\ arg' = [self_ty |-> "NonPositiveInteger", self |-> v]
          /\ res' = NonPositiveInteger_lexical_representation(v)
    /\ UNCHANGED acc

\* s.parse::<NonNegativeInteger>(), the value let go of
CallParseNonNegativeInteger ==
    /\ op = "idle"
    /\ \E s \in Texts :
          /\ op' = "from_str"
          /\ arg' = [self_ty |-> "NonNegativeInteger", s |-> s]
          /\ res' = NonNegativeInteger_from_str(s)
    /\ UNCHANGED acc

\* s.parse::<NonPositiveInteger>()
CallParseNonPositiveInteger ==
    /\ op = "idle"
    /\ \E s \in Texts :
          /\ op' = "from_str"
          /\ arg' = [self_ty |-> "NonPositiveInteger", s |-> s]
          /\ res' = NonPositiveInteger_from_str(s)
    /\ UNCHANGED acc

NextText ==
    \/ CallDisplayNonNegativeInteger
    \/ CallDisplayNonPositiveInteger
    \/ CallLexicalRepresentationNonNegativeInteger
    \/ CallLexicalRepresentationNonPositiveInteger
    \/ CallParseNonNegativeInteger
    \/ CallParseNonPositiveInteger
    \/ Forget

SpecText == Init /\ [][NextText]_vars

(***************************************************************************)
(* Embeddings of the datatype enums into their ancestors.                  *)
(***************************************************************************)
\* the impls the impl_from! blocks give: <<$ty, $from_ty>>
Impls ==
    { <<"Datatype", t>> :
         t \in { "StringDatatype", "DecimalDatatype", "IntegerDatatype",
                 "NonPositiveIntegerDatatype", "LongDatatype", "IntDatatype",
                 "ShortDatatype", "NonNegativeIntegerDatatype",
                 "UnsignedLongDatatype", "UnsignedIntDatatype",
                 "UnsignedShortDatatype" } }
    \cup { <<"DecimalDatatype", t>> :
         t \in { "IntegerDatatype", "NonPositiveIntegerDatatype",
                 "LongDatatype", "IntDatatype", "ShortDatatype",
                 "NonNegativeIntegerDatatype", "UnsignedLongDatatype",
                 "UnsignedIntDatatype", "UnsignedShortDatatype" } }
    \cup { <<"IntegerDatatype", t>> :
         t \in { "NonPositiveIntegerDatatype", "LongDatatype", "IntDatatype",
                 "ShortDatatype", "NonNegativeIntegerDatatype",
                 "UnsignedLongDatatype", "UnsignedIntDatatype",
                 "UnsignedShortDatatype" } }
    \cup { <<"LongDatatype", t>> : t \in { "IntDatatype", "ShortDatatype" } }
    \cup { <<"IntDatatype", "ShortDatatype">> }
    \cup { <<"NonNegativeIntegerDatatype", t>> :
         t \in { "UnsignedLongDatatype", "UnsignedIntDatatype",
                 "UnsignedShortDatatype" } }
    \cup { <<"UnsignedLongDatatype", t>> :
         t \in { "UnsignedIntDatatype", "UnsignedShortDatatype" } }
    \cup { <<"UnsignedIntDatatype", "UnsignedShortDatatype">> }

\* <$ty as From<$from_ty>>::from, or From<Option<$from_ty>> when is_option
From(target, is_option, from_ty, input) ==
    CASE target = "Datatype" -> Datatype_from(is_option, from_ty, input)
      [] target = "DecimalDatatype" ->
            DecimalDatatype_from(is_option, from_ty, input)
      [] target = "IntegerDatatype" ->
            IntegerDatatype_from(is_option, from_ty, input)
      [] target = "LongDatatype" -> LongDatatype_from(is_option, from_ty, input)
      [] target = "IntDatatype" -> IntDatatype_from(is_option, from_ty, input)
      [] target = "NonNegativeIntegerDatatype" ->
            NonNegativeIntegerDatatype_from(is_option, from_ty, input)
      [] target = "UnsignedLongDatatype" ->
            UnsignedLongDatatype_from(is_option, from_ty, input)
      [] target = "UnsignedIntDatatype" ->
            UnsignedIntDatatype_from(is_option, from_ty, input)

\* the values of each enum
ValuesOf(ty) ==
    CASE ty = "StringDatatype" -> StringDatatype
      [] ty = "DecimalDatatype" -> DecimalDatatype
      [] ty = "IntegerDatatype" -> IntegerDatatype
      [] ty = "NonPositiveIntegerDatatype" -> NonPositiveIntegerDatatype
      [] ty = "LongDatatype" -> LongDatatype
      [] ty = "IntDatatype" -> IntDatatype
      [] ty = "ShortDatatype" -> ShortDatatype
      [] ty = "NonNegativeIntegerDatatype" -> NonNegativeIntegerDatatype
      [] ty = "UnsignedLongDatatype" -> UnsignedLongDatatype
      [] ty = "UnsignedIntDatatype" -> UnsignedIntDatatype
      [] ty = "UnsignedShortDatatype" -> UnsignedShortDatatype

\* <$ty>::from(t) for a value t of the enum $from_ty
CallFrom ==
    /\ op = "idle"
    /\ \E impl \in Impls :
          \E t \in ValuesOf(impl[2]) :
             /\ op' = "from"
             /\ arg' = [target |-> impl[1], is_option |-> FALSE,
                        from_ty |-> impl[2], input |-> t]
             /\ res' = From(impl[1], FALSE, impl[2], t)
    /\ UNCHANGED acc

\* <$ty>::from(input_opt) for an Option<$from_ty>
CallFromOption ==
    /\ op = "idle"
    /\ \E impl \in Impls :
          \E input_opt \in Option(ValuesOf(impl[2])) :
             /\ op' = "from"
             /\ arg' = [target |-> impl[1], is_option |-> TRUE,
                        from_ty |-> impl[2], input |-> input_opt]
             /\ res' = From(impl[1], TRUE, impl[2], input_opt)
    /\ UNCHANGED acc

NextEmbed == CallFrom \/ CallFromOption \/ Forget

SpecEmbed == Init /\ [][NextEmbed]_vars

(***************************************************************************)
(* Construction of NonNegativeInteger and NonPositiveInteger from an       *)
(* Integer and from bytes.                                                 *)
(***************************************************************************)
\* the longest byte string handed to a constructor
MaxBytes == 2

\* the bytes handed to a constructor: the least, the greatest and the two
\* around the sign bit
ByteValues == { 0, 1, Base \div 2 - 1, Base \div 2, Base - 1 }

ByteStrings == UNION { [1 .. n -> ByteValues] : n \in 0 .. MaxBytes }

\* NonNegativeInteger::try_from(value) and NonPositiveInteger::try_from(value)
CallTryFrom ==
    /\ op = "idle"
    /\ \E self_ty \in { "NonNegativeInteger", "NonPositiveInteger" },
          value \in IntegerValues :
          /\ op' = "try_from"
          /\ arg' = [self_ty |-> self_ty, value |-> value]
          /\ res' = IF self_ty = "NonNegativeInteger"
                    THEN NonNegativeInteger_try_from(value)
                    ELSE NonPositiveInteger_try_from(value)
    /\ UNCHANGED acc

\* NonPositiveInteger::from_bytes_be(bytes)
CallFromBytesBe ==
    /\ op = "idle"
    /\ \E bytes \in ByteStrings :
          /\ op' = "from_bytes_be"
          /\ arg' = [bytes |-> bytes]
          /\ res' = Ok(NonPositiveInteger_from_bytes_be(bytes))
    /\ UNCHANGED acc

\* NonPositiveInteger::from_bytes_le(bytes)
CallFromBytesLe ==
    /\ op = "idle"
    /\ \E bytes \in ByteStrings :
          /\ op' = "from_bytes_le"
          /\ arg' = [bytes |-> bytes]
          /\ res' = Ok(NonPositiveInteger_from_bytes_le(bytes))
    /\ UNCHANGED acc

\* NonPositiveInteger::from_signed_bytes_be(bytes)
CallFromSignedBytesBe ==
    /\ op = "idle"
    /\ \E bytes \in ByteStrings :
          /\ op' = "from_signed_bytes_be"
          /\ arg' = [bytes |-> bytes]
          /\ res' = NonPositiveInteger_from_signed_bytes_be(bytes)
    /\ UNCHANGED acc

\* NonPositiveInteger::from_signed_bytes_le(bytes)
CallFromSignedBytesLe ==
    /\ op = "idle"
    /\ \E bytes \in ByteStrings :
          /\ op' = "from_signed_bytes_le"
          /\ arg' = [bytes |-> bytes]
          /\ res' = NonPositiveInteger_from_signed_bytes_le(bytes)
    /\ UNCHANGED acc

NextConstruct ==
    \/ CallTryFrom
    \/ CallFromBytesBe
    \/ CallFromBytesLe
    \/ CallFromSignedBytesBe
    \/ CallFromSignedBytesLe
    \/ Forget

SpecConstruct == Init /\ [][NextConstruct]_vars

(***************************************************************************)
(* The datatype catalog.                                                   *)
(***************************************************************************)
\* the datatypes whose parse is a todo!()
Unimplemented(d) ==
    \/ d[1] \in { "Duration", "Time", "Date", "GYearMonth", "GYear",
                  "GMonthDay", "GDay", "GMonth", "QName", "Notation" }
    \/ d[1] = "String" /\ Tail(d) # None

\* C1: for every Datatype value d, from_iri(d.iri()) is Some(d).
C1_FromIriOfIri ==
    op = "iri" => from_iri(res) = Some(arg.datatype)

\* iri() has been called on the deepest rungs of both chains
C1_Witness ==
    /\ op = "iri"
    /\ arg.datatype \in
          { <<"Decimal", "Integer", "NonNegativeInteger", "UnsignedLong",
              "UnsignedInt", "UnsignedShort", "UnsignedByte">>,
            <<"String", "NormalizedString", "Token", "Name", "NCName",
              "IdRef">> }
    /\ res \in { XSD.UNSIGNED_BYTE, XSD.IDREF }

\* C2: from_iri never returns a wrong mapping: a datatype it returns has the
\* IRI that was asked for, and the list-derived IRIs and every IRI outside
\* the table give None.
C2_NoWrongMapping ==
    op = "from_iri" =>
        /\ res # None => res \in Datatype /\ Datatype_iri(res) = arg.iri
        /\ arg.iri \in ListIris => res = None
        /\ arg.iri \notin MappedIris => res = None

\* from_iri has answered None for a list-derived IRI
C2_Witness ==
    op = "from_iri" /\ arg.iri = XSD.NMTOKENS /\ res = None

\* C4: parse on a datatype whose grammar is not implemented stops with the
\* "not yet implemented" signal, whatever the text; it never returns Ok.
C4_UnimplementedFailsClosed ==
    (op = "parse" /\ Unimplemented(arg.datatype)) =>
        /\ res.tag # "Ok"
        /\ res = Panic("not yet implemented")

\* parse has been called on a String refinement with a text that the plain
\* string datatype would accept
C4_Witness ==
    /\ op = "parse"
    /\ arg.datatype = <<"String", "NormalizedString", "Token">>
    /\ arg.value = <<"a">>
    /\ res.tag = "Panic"

\* C5: parse returns Ok(value) or Err(ParseError) and never aborts the
\* caller.
C5_OnlyTypedErrors ==
    op = "parse" => res.tag \in { "Ok", "Err" }

\* C3: every NonNegativeInteger that exists, held by the caller or just
\* returned by zero(), a parse, TryFrom<Integer> or an arithmetic
\* operation, holds an integer >= 0.
C3_NeverNegative ==
    /\ \A i \in 1 .. Len(acc) : ~is_negative(acc[i])
    /\ op \in { "zero", "from_str", "try_from", "add", "sub", "mul", "div" }
          /\ res.tag = "Ok"
       => ~is_negative(res.value)

\* C6: non_negative_integer_type always answers Some, and for a value >= 0
\* the answer is UnsignedByte up to 255, UnsignedShort up to 65535,
\* UnsignedInt up to 2^32 - 1, UnsignedLong up to 2^64 - 1 and
\* PositiveInteger above.
C6_ClassifiesAtBoundaries ==
    op = "non_negative_integer_type" =>
       /\ res # None
       /\ res \in NonNegativeIntegerDatatype
       /\ ~is_negative(arg.self) =>
             res = CASE Len(arg.self.mag) <= 1 ->
                          <<"UnsignedLong", "UnsignedInt", "UnsignedShort",
                            "UnsignedByte">>
                     [] Len(arg.self.mag) = 2 ->
                          <<"UnsignedLong", "UnsignedInt", "UnsignedShort">>
                     [] Len(arg.self.mag) \in 3 .. 4 ->
                          <<"UnsignedLong", "UnsignedInt">>
                     [] Len(arg.self.mag) \in 5 .. 8 -> <<"UnsignedLong">>
                     [] OTHER -> <<"PositiveInteger">>

\* 2^64 was classified, and as PositiveInteger
C6_Witness ==
    /\ op = "non_negative_integer_type"
    /\ arg.self = [sign |-> "Plus", mag |-> <<0, 0, 0, 0, 0, 0, 0, 0, 1>>]
    /\ res = <<"PositiveInteger">>

\* C7: type_ of a u64, u32, u16 or u8 is the narrowest rung of the unsigned
\* ladder that admits the value: unsignedByte up to 255, unsignedShort up
\* to 65535, unsignedInt up to 2^32 - 1, unsignedLong up to 2^64 - 1.
C7_NativeNarrowestRung ==
    op = "type_" /\ arg.self_ty \in { "UnsignedLong", "UnsignedInt",
                                      "UnsignedShort", "UnsignedByte" } =>
       res = <<"Decimal", "Integer", "NonNegativeInteger">>
                \o CASE Len(Strip(arg.self.bytes)) <= 1 ->
                          <<"UnsignedLong", "UnsignedInt", "UnsignedShort",
                            "UnsignedByte">>
                     [] Len(Strip(arg.self.bytes)) = 2 ->
                          <<"UnsignedLong", "UnsignedInt", "UnsignedShort">>
                     [] Len(Strip(arg.self.bytes)) \in 3 .. 4 ->
                          <<"UnsignedLong", "UnsignedInt">>
                     [] OTHER -> <<"UnsignedLong">>

\* C8: type_ of a NonPositiveInteger is negativeInteger below zero and
\* nonPositiveInteger at zero.
C8_NonPositiveDeepestRung ==
    op = "type_" /\ arg.self_ty = "NonPositiveInteger" =>
       res = IF is_negative(arg.self)
             THEN <<"Decimal", "Integer", "NonPositiveInteger",
                    "NegativeInteger">>
             ELSE <<"Decimal", "Integer", "NonPositiveInteger">>

\* C9: narrowing a NonNegativeInteger or NonPositiveInteger into a machine
\* integer gives Ok(n) with n equal to the value exactly when the value is
\* between the type's least and greatest value, and otherwise the
\* out-of-target-bounds error of the source type, holding the value.
C9_NarrowingKeepsValue ==
    op = "try_into" =>
       IF /\ BigCmp(NativeMin(arg.ty, arg.k), arg.value) <= 0
          /\ BigCmp(arg.value, NativeMax(arg.ty, arg.k)) <= 0
       THEN /\ res.tag = "Ok"
            /\ res.value.ty = arg.ty
            /\ Len(res.value.bytes) = arg.k
            /\ BigFromNative(res.value) = arg.value
       ELSE /\ res.tag = "Err"
            /\ res.error.kind
                  = IF arg.from = "NonNegativeInteger"
                    THEN "NonNegativeIntegerOutOfTargetBounds"
                    ELSE "NonPositiveIntegerOutOfTargetBounds"
            /\ res.error.value = arg.value

\* 256 did not fit a u8 and came back in the error
C9_Witness ==
    /\ op = "try_into"
    /\ arg.from = "NonNegativeInteger"
    /\ arg.ty = "u8"
    /\ arg.value = [sign |-> "Plus", mag |-> <<0, 1>>]
    /\ res.tag = "Err"
    /\ res.error.value = arg.value

\* C10: a division of a NonNegativeInteger by zero, of its own type or a
\* machine integer, returns an error.
C10_DivisionByZeroReported ==
    op = "div" /\ is_zero(IF arg.rhs_ty = "NonNegativeInteger" THEN arg.rhs
                          ELSE BigFromNative(arg.rhs)) =>
       res.tag = "Err"

(***************************************************************************)
(* Numbers as text.                                                        *)
(***************************************************************************)
\* FromStr of the type self_ty
FromStrOf(self_ty, s) ==
    IF self_ty = "NonNegativeInteger" THEN NonNegativeInteger_from_str(s)
    ELSE NonPositiveInteger_from_str(s)

\* whether the lexical validator of the type self_ty accepts s
Validated(self_ty, s) ==
    IF self_ty = "NonNegativeInteger" THEN lexical_NonNegativeInteger(s)
    ELSE lexical_NonPositiveInteger(s)

\* whether v is in the value space of the type self_ty
InValueSpace(self_ty, v) ==
    IF self_ty = "NonNegativeInteger" THEN ~is_negative(v)
    ELSE ~is_positive(v)

RECURSIVE StripLeadingZeros(_)
StripLeadingZeros(d) ==
    IF Len(d) > 1 /\ d[1] = "0" THEN StripLeadingZeros(Tail(d)) ELSE d

\* the digits of an integer text without '+' and leading zeros, '-' kept
\* unless the number is zero
Canonical(s) ==
    IF StripLeadingZeros(Unsigned(s)) = <<"0">> THEN <<"0">>
    ELSE (IF s[1] = "-" THEN <<"-">> ELSE <<>>)
            \o StripLeadingZeros(Unsigned(s))

C12_CanonicalForm ==
    /\ op = "from_str" /\ res.tag = "Ok"
       => /\ BigInt_fmt(res.value) = Canonical(arg.s)
          /\ arg.s \in { <<"+", "5">>, <<"5">>, <<"0", "5">>, <<"0", "0", "5">> }
                => res.value = [sign |-> "Plus", mag |-> <<5>>]
    /\ op = "to_string"
       => /\ res = Canonical(res)
          /\ res[1] # "+"
          /\ res[1] = "-" <=> is_negative(arg.self)

\* "+5" has been parsed, to 5
C12_Witness ==
    /\ op = "from_str"
    /\ arg.s = <<"+", "5">>
    /\ res = Ok([sign |-> "Plus", mag |-> <<5>>])

\* C13: a text that the lexical validator of nonNegativeInteger or
\* nonPositiveInteger accepts is always converted to a value: the unwrap of
\* the BigInt parse never meets an error.
C13_ValidatorAndConstructorAgree ==
    op = "from_str" /\ Validated(arg.self_ty, arg.s) => res.tag = "Ok"

\* "+0" has been validated and converted as a NonPositiveInteger
C13_Witness ==
    /\ op = "from_str"
    /\ arg.self_ty = "NonPositiveInteger"
    /\ arg.s = <<"+", "0">>
    /\ res = Ok(BigZero)

\* C14: Datatype::parse for nonNegativeInteger gives 5 on "+5", an error on
\* "-1", and only values >= 0.
C14_NonNegativeParseRespectsBound ==
    op = "parse"
       /\ arg.datatype = <<"Decimal", "Integer", "NonNegativeInteger">>
    => /\ arg.value = <<"+", "5">>
             => res = Ok([variant |-> "NonNegativeInteger",
                          v |-> [sign |-> "Plus", mag |-> <<5>>]])
       /\ arg.value = <<"-", "1">> => res.tag = "Err"
       /\ res.tag = "Ok"
             => /\ res.value.variant = "NonNegativeInteger"
                /\ ~is_negative(res.value.v)

\* "-1" has been refused under nonNegativeInteger
C14_Witness ==
    /\ op = "parse"
    /\ arg.datatype = <<"Decimal", "Integer", "NonNegativeInteger">>
    /\ arg.value = <<"-", "1">>
    /\ res = Err(ParseError)

(***************************************************************************)
(* Embeddings.                                                             *)
(***************************************************************************)
\* the enum each enum is a variant's payload of
ParentOf(ty) ==
    CASE ty = "UnsignedShortDatatype" -> "UnsignedIntDatatype"
      [] ty = "UnsignedIntDatatype" -> "UnsignedLongDatatype"
      [] ty = "UnsignedLongDatatype" -> "NonNegativeIntegerDatatype"
      [] ty = "NonNegativeIntegerDatatype" -> "IntegerDatatype"
      [] ty = "ShortDatatype" -> "IntDatatype"
      [] ty = "IntDatatype" -> "LongDatatype"
      [] ty = "LongDatatype" -> "IntegerDatatype"
      [] ty = "NonPositiveIntegerDatatype" -> "IntegerDatatype"
      [] ty = "IntegerDatatype" -> "DecimalDatatype"
      [] ty = "DecimalDatatype" -> "Datatype"
      [] ty = "StringDatatype" -> "Datatype"

\* the conversion into target made one enum of the chain at a time
RECURSIVE Stepwise(_, _, _, _)
Stepwise(target, is_option, from_ty, input) ==
    IF ParentOf(from_ty) = target THEN From(target, is_option, from_ty, input)
    ELSE Stepwise(target, FALSE, ParentOf(from_ty),
                  From(ParentOf(from_ty), is_option, from_ty, input))

\* C15: converting a rung value, plain or as an Option (None included),
\* directly into an ancestor enum gives what converting it through each
\* enum in between gives.
C15_EmbeddingsCompose ==
    op = "from" =>
       res = Stepwise(arg.target, arg.is_option, arg.from_ty, arg.input)

(***************************************************************************)
(* Errors of parse.                                                        *)
(***************************************************************************)
\* why an integer grammar refuses a text
ViolationClass(s) ==
    CASE s = <<>> -> "empty input"
      [] \E i \in 1 .. Len(s) : ~IsDigit(s[i]) /\ s[i] \notin { "+", "-" } ->
            "invalid character"
      [] OTHER -> "sign"

\* C16: the error parse returns for a text outside the grammar tells the
\* violation apart: two texts refused for different violation classes get
\* different errors (here under the integer datatypes, whose grammar the
\* model reads).
C16_ErrorsLocalizeFault ==
    (/\ op = "parse"
     /\ arg.datatype[1] = "Decimal"
     /\ Len(arg.datatype) >= 2
     /\ res.tag = "Err")
    => \A s \in Texts :
          (/\ Datatype_parse(arg.datatype, s, FALSE).tag = "Err"
           /\ ViolationClass(s) # ViolationClass(arg.value))
          => Datatype_parse(arg.datatype, s, FALSE) # res

(***************************************************************************)
(* Arithmetic on NonNegativeInteger.                                       *)
(***************************************************************************)
\* the number the right operand of an arithmetic call holds
RhsNumber ==
    IF arg.rhs_ty = "NonNegativeInteger" THEN arg.rhs
    ELSE BigFromNative(arg.rhs)

\* the unbounded result of the arithmetic call, for a non-zero divisor
Exact ==
    CASE op = "add" -> BigAdd(arg.self, RhsNumber)
      [] op = "sub" -> BigSub(arg.self, RhsNumber)
      [] op = "mul" -> BigMul(arg.self, RhsNumber)
      [] op = "div" -> BigDiv(arg.self, RhsNumber)

ArithmeticCall ==
    /\ op \in { "add", "sub", "mul", "div" }
    /\ op = "div" => ~is_zero(RhsNumber)

\* C18: an operation on two NonNegativeInteger values whose exact result
\* is below zero (a - b with b > a) aborts on an assertion and returns no
\* NonNegativeInteger.
C18_SameTypeResultChecked ==
    (/\ ArithmeticCall
     /\ arg.rhs_ty = "NonNegativeInteger"
     /\ ~is_negative(arg.self)
     /\ ~is_negative(arg.rhs)
     /\ is_negative(Exact))
    => res.tag = "Panic"

\* the integer a sequence of base-256 digits denotes, lowest digit first
DigitsAsInt(m) ==
    IF m = <<>> THEN 0
    ELSE IF Len(m) = 1 THEN m[1]
    ELSE IF Len(m) = 2 THEN m[1] + Base * m[2]
    ELSE m[1] + Base * m[2] + Base * Base * m[3]

\* the integer a BigInt of at most three digits holds
AsInt(n) == IF is_negative(n) THEN -DigitsAsInt(n.mag) ELSE DigitsAsInt(n.mag)

\* the integer a machine integer of one or two bytes holds
NativeAsInt(v) ==
    LET u == DigitsAsInt(v.bytes)
        half == IF Len(v.bytes) = 1 THEN 128 ELSE 32768
    IN  IF v.ty \in SignedTypes /\ u >= half THEN u - 2 * half ELSE u

\* the result of add, sub or mul computed on integers
ExactAsInt ==
    CASE op = "add" -> AsInt(arg.self) + NativeAsInt(arg.rhs)
      [] op = "sub" -> AsInt(arg.self) - NativeAsInt(arg.rhs)
      [] op = "mul" -> AsInt(arg.self) * NativeAsInt(arg.rhs)

AssertionFailed == Panic("assertion failed: !n.is_negative()")

\* C19: a NonNegativeInteger combined with a machine integer of any type
\* by +, -, * or / (non-zero divisor) gives the exact unbounded result,
\* without wrapping at the machine integer's width: the result is returned
\* when it is >= 0 and the assertion fails, returning nothing, when it is
\* below zero.  For operands of one or two bytes the result is the one
\* integer arithmetic gives.
C19_NativeArithmeticExact ==
    (ArithmeticCall /\ arg.rhs_ty # "NonNegativeInteger") =>
       /\ res = IF is_negative(Exact) THEN AssertionFailed ELSE Ok(Exact)
       /\ (op # "div" /\ Len(arg.rhs.bytes) <= 2) =>
             IF ExactAsInt < 0 THEN res = AssertionFailed
             ELSE res.tag = "Ok" /\ AsInt(res.value) = ExactAsInt
                     /\ Len(res.value.mag) <= 3

\* 1 + u64::MAX is 2^64
C19_Witness ==
    /\ op = "add"
    /\ arg.self = [sign |-> "Plus", mag |-> <<1>>]
    /\ arg.rhs = [ty |-> "u64", bytes |-> <<255, 255, 255, 255, 255, 255, 255, 255>>]
    /\ res = Ok([sign |-> "Plus", mag |-> <<0, 0, 0, 0, 0, 0, 0, 0, 1>>])

\* C20: a division of a NonNegativeInteger by a non-zero divisor, of its
\* own type or a machine integer, gives the exact quotient rounded toward
\* zero: what is left of the dividend is smaller than the divisor and
\* has the dividend's sign.  With a machine integer the assertion fails
\* exactly when that quotient is below zero, so a / b for b < 0 and
\* a < |b| returns 0.
C20_DivisionTruncates ==
    (op = "div" /\ ~is_zero(RhsNumber)) =>
       LET a == arg.self
           b == RhsNumber
       IN  /\ res.tag = "Ok" =>
                 LET r == BigSub(a, BigMul(res.value, b))
                 IN  /\ MagCmp(r.mag, b.mag) < 0
                     /\ is_zero(r) \/ r.sign = a.sign
           /\ arg.rhs_ty # "NonNegativeInteger" =>
                 (res = AssertionFailed
                    <=> /\ a.sign # b.sign
                        /\ ~is_zero(a)
                        /\ MagCmp(a.mag, b.mag) >= 0)
           /\ (~is_negative(a) /\ is_negative(b) /\ MagCmp(a.mag, b.mag) < 0)
                 => res = Ok(BigZero)

\* 1 / i8::MIN is 0
C20_Witness ==
    /\ op = "div"
    /\ arg.self = [sign |-> "Plus", mag |-> <<1>>]
    /\ arg.rhs = [ty |-> "i8", bytes |-> <<128>>]
    /\ res = Ok(BigZero)

(***************************************************************************)
(* The value a datatype parses to.                                         *)
(***************************************************************************)
\* C21: whenever d.parse(value) returns Ok(v), v is the Value variant of d
\* itself, the innermost variant of d (Byte gives Value::Byte, Integer
\* gives Value::Integer, Decimal gives Value::Decimal), never the variant
\* of an ancestor or of a sibling.
C21_ParseGivesOwnVariant ==
    (op = "parse" /\ res.tag = "Ok") =>
       res.value.variant = arg.datatype[Len(arg.datatype)]

\* "5" parsed as a byte is a Value::Byte
C21_Witness ==
    /\ op = "parse"
    /\ arg.datatype = <<"Decimal", "Integer", "Long", "Int", "Short", "Byte">>
    /\ arg.value = <<"5">>
    /\ res.tag = "Ok"
    /\ res.value.variant = "Byte"

(***************************************************************************)
(* Construction from an Integer and from bytes.                            *)
(***************************************************************************)
\* C22: TryFrom<Integer> looks at the sign only: for NonNegativeInteger it
\* succeeds exactly when the integer is >= 0, for NonPositiveInteger
\* exactly when it is <= 0 (zero passes both); the result is the input's
\* number and a rejection carries the rejected Integer unchanged.
C22_TryFromChecksSign ==
    op = "try_from" =>
       LET fits == IF arg.self_ty = "NonNegativeInteger"
                   THEN BigCmp(arg.value, BigZero) >= 0
                   ELSE BigCmp(arg.value, BigZero) <= 0
       IN  /\ res.tag \in { "Ok", "Err" }
           /\ res.tag = "Ok" <=> fits
           /\ res.tag = "Ok" => res.value = arg.value
           /\ res.tag = "Err" => res.error.value = arg.value

\* zero is a NonPositiveInteger
C22_Witness ==
    /\ op = "try_from"
    /\ arg.self_ty = "NonPositiveInteger"
    /\ arg.value = BigZero
    /\ res = Ok(BigZero)

\* the unsigned integer of a byte string, lowest byte first
RECURSIVE UnsignedLe(_)
UnsignedLe(bytes) ==
    IF bytes = <<>> THEN 0 ELSE bytes[1] + Base * UnsignedLe(Tail(bytes))

\* the unsigned integer of a byte string, highest byte first
RECURSIVE UnsignedBe(_)
UnsignedBe(bytes) ==
    IF bytes = <<>> THEN 0
    ELSE Base * UnsignedBe(Front(bytes)) + bytes[Len(bytes)]

RECURSIVE Pow256(_)
Pow256(k) == IF k = 0 THEN 1 ELSE Base * Pow256(k - 1)

\* the two's complement integer of Len(bytes) bytes whose unsigned
\* integer is u and whose highest byte is top
Signed(bytes, u, top) ==
    IF bytes # <<>> /\ top >= Base \div 2 THEN u - Pow256(Len(bytes)) ELSE u

\* the integer the bytes of the call encode, unsigned and signed
EncodedUnsigned ==
    IF op \in { "from_bytes_be", "from_signed_bytes_be" }
    THEN UnsignedBe(arg.bytes) ELSE UnsignedLe(arg.bytes)

EncodedSigned ==
    IF op = "from_signed_bytes_be"
    THEN Signed(arg.bytes, UnsignedBe(arg.bytes),
                IF arg.bytes = <<>> THEN 0 ELSE arg.bytes[1])
    ELSE Signed(arg.bytes, UnsignedLe(arg.bytes),
                IF arg.bytes = <<>> THEN 0 ELSE arg.bytes[Len(arg.bytes)])

\* C23: every safe byte constructor of NonPositiveInteger gives a value
\* <= 0: from_bytes_be and from_bytes_le always return the negation of the
\* unsigned integer the bytes encode (zero for no bytes or zero bytes);
\* from_signed_bytes_be and from_signed_bytes_le return Err exactly when
\* the signed integer the bytes encode is above zero and that integer
\* otherwise.
C23_ByteConstructorsNonPositive ==
    /\ op \in { "from_bytes_be", "from_bytes_le" } =>
          /\ res = Ok(BigFromInt(-EncodedUnsigned))
          /\ ~is_positive(res.value)
    /\ op \in { "from_signed_bytes_be", "from_signed_bytes_le" } =>
          IF EncodedSigned > 0
          THEN res.tag = "Err" /\ res.error.value = BigFromInt(EncodedSigned)
          ELSE res = Ok(BigFromInt(EncodedSigned)) /\ ~is_positive(res.value)

\* the bytes 01 00, highest first, give -256
C23_Witness ==
    /\ op = "from_bytes_be"
    /\ arg.bytes = <<1, 0>>
    /\ res = Ok([sign |-> "Minus", mag |-> <<0, 1>>])

==========================================================================
